---- MODULE Spec2Model ----
(***************************************************************************)
(* Model of the brain visualizer component (BrainVisualizer): the snapshot *)
(* loader, the payload validator, the Cytoscape engine life cycle, the     *)
(* edge resync effect and the deferred callbacks (timers).                 *)
(*                                                                         *)
(* Numbers with a fraction (weight, plasticity) are integers in            *)
(* thousandths: 0.9 is 900.                                                *)
(***************************************************************************)
EXTENDS Integers, Sequences, FiniteSets, TLC

\* ------------------------------------------------------------------ bounds
MaxRequests == 2      \* fetches issued during one behaviour
MaxEngines == 2       \* engine instances constructed during one behaviour
MaxThrows == 1        \* exceptions raised by engine calls during one behaviour
MaxMutations == 2     \* fields changed in a payload handed to the validator

\* -------------------------------------------------------------- JS values
Num(n) == [t |-> "num", n |-> n, s |-> "", b |-> FALSE]
Str(s) == [t |-> "str", n |-> 0, s |-> s, b |-> FALSE]
Bool(b) == [t |-> "bool", n |-> 0, s |-> "", b |-> b]
Undef == [t |-> "undef", n |-> 0, s |-> "", b |-> FALSE]

\* JavaScript truthiness, as used by `!x`
Truthy(v) ==
    CASE v.t = "num" -> v.n # 0
      [] v.t = "str" -> v.s # ""
      [] v.t = "bool" -> v.b
      [] OTHER -> FALSE

IsNumber(v) == v.t = "num"

IsBoolean(v) == v.t = "bool"

\* ---------------------------------------------------------------- payloads
MkNode(id, type, bias, threshold) ==
    [id |-> Num(id), type |-> Str(type), activation |-> Str("tanh"),
     bias |-> Num(bias), threshold |-> Num(threshold)]

MkConn(id, from, to, weight, plasticity, enabled) ==
    [id |-> Num(id), from |-> Num(from), to |-> Num(to), weight |-> Num(weight),
     plasticity |-> Num(plasticity), enabled |-> Bool(enabled)]

MkPayload(id, nodes, conns) ==
    [kind |-> "object", id |-> id, nodesArr |-> TRUE, connsShape |-> "array",
     gp |-> Num(1), fitness |-> Num(2), age |-> Num(3),
     nodes |-> nodes, connections |-> conns]

\* 3 nodes, one enabled and one disabled connection
Example7 ==
    MkPayload(7, << MkNode(1, "input", 0, 500), MkNode(2, "hidden", 100, 500),
                    MkNode(3, "output", 0, 500) >>,
                 << MkConn(1, 1, 2, 900, 100, TRUE), MkConn(2, 2, 3, -800, 50, FALSE) >>)

\* every connection disabled
AllOff8 ==
    MkPayload(8, << MkNode(1, "input", 0, 500), MkNode(2, "output", 0, 500) >>,
                 << MkConn(1, 1, 2, 500, 100, FALSE), MkConn(2, 2, 1, 0, 100, FALSE) >>)

\* an enabled connection whose target is not a node of the snapshot
Dangling8 ==
    MkPayload(8, << MkNode(1, "input", 0, 500), MkNode(2, "memory", 0, 500) >>,
                 << MkConn(1, 1, 2, 300, 100, TRUE), MkConn(2, 2, 9, -300, 100, TRUE) >>)

\* a node whose bias is missing
BadBias7 ==
    MkPayload(7, << [MkNode(1, "input", 0, 500) EXCEPT !.bias = Undef] >>, << >>)

\* a connection whose enabled flag is the number 1
BadFlag8 ==
    MkPayload(8, << MkNode(1, "input", 0, 500), MkNode(2, "output", 0, 500) >>,
                 << [MkConn(1, 1, 2, 500, 100, TRUE) EXCEPT !.enabled = Num(1)] >>)

\* the JSON value null
NullPayload ==
    [ MkPayload(0, << >>, << >>) EXCEPT !.kind = "null" ]

\* nodes numbered from 0
ZeroId7 ==
    MkPayload(7, << MkNode(0, "input", 0, 500), MkNode(1, "output", 0, 500) >>,
                 << MkConn(1, 0, 1, 700, 100, TRUE) >>)

Catalogue == << Example7, AllOff8, Dangling8, BadBias7, BadFlag8, NullPayload >>

\* ------------------------------------------------------- validateBrainData
NodeOk(node) ==
    /\ Truthy(node.id)
    /\ Truthy(node.type)
    /\ Truthy(node.activation)
    /\ IsNumber(node.bias)
    /\ IsNumber(node.threshold)

ConnOk(conn) ==
    /\ Truthy(conn.id)
    /\ Truthy(conn.from)
    /\ Truthy(conn.to)
    /\ IsNumber(conn.weight)
    /\ IsNumber(conn.plasticity)
    /\ IsBoolean(conn.enabled)

validateBrainData(data) ==
    IF data.kind # "object" THEN FALSE
    ELSE IF ~data.nodesArr \/ data.connsShape # "array" THEN FALSE
    ELSE IF ~IsNumber(data.gp) \/ ~IsNumber(data.fitness) \/ ~IsNumber(data.age) THEN FALSE
    ELSE IF \E i \in 1..Len(data.nodes) : ~NodeOk(data.nodes[i]) THEN FALSE
    ELSE IF \E i \in 1..Len(data.connections) : ~ConnOk(data.connections[i]) THEN FALSE
    ELSE TRUE

\* The weight-analysis loop that runs on the raw payload before validation
\* dereferences data.connections: null has no properties and a truthy
\* non-array has no forEach, so both raise a TypeError.
PreValidationThrows(data) ==
    \/ data.kind = "null"
    \/ data.kind = "object" /\ data.connsShape = "other"

\* ------------------------------------------------------------ view inputs
BrainIds == {7, 8}

Layouts == {"concentric", "grid"}

NodeSizes == {30, 40}

\* what the server may answer to GET /api/population/{id}: a transport
\* failure, a non-2xx status, or one of the catalogue's bodies
BodiesFor(id) ==
    {i \in 1..Len(Catalogue) : Catalogue[i].kind # "object" \/ Catalogue[i].id = id}

Outcomes(id) == {"network", "http"} \cup BodiesFor(id)

\* error messages (the empty string is null)
NoError == ""

HttpError == "HTTP status"

NetworkError == "Failed to fetch"

TypeErrorMsg == "TypeError"

ValidationError == "invalid brain data structure"

InitError == "init error"

\* ------------------------------------------------------------ conversions
Digit(d) ==
    CASE d = 0 -> "0" [] d = 1 -> "1" [] d = 2 -> "2" [] d = 3 -> "3" [] d = 4 -> "4"
      [] d = 5 -> "5" [] d = 6 -> "6" [] d = 7 -> "7" [] d = 8 -> "8" [] d = 9 -> "9"

RECURSIVE NatToStr(_)
NatToStr(n) == IF n < 10 THEN << Digit(n) >> ELSE NatToStr(n \div 10) \o << Digit(n % 10) >>

\* Number.prototype.toString of an integer, as a sequence of characters
ToStr(n) == IF n < 0 THEN << "-" >> \o NatToStr(-n) ELSE NatToStr(n)

\* EdgeId without the separators between the three numbers
EdgeIdJoined(conn) ==
    << "edge_" >> \o ToStr(conn.id.n) \o ToStr(conn.from.n) \o ToStr(conn.to.n)

\* `edge_${conn.id}_${conn.from}_${conn.to}`
EdgeId(conn) ==
    << "edge_" >> \o ToStr(conn.id.n) \o << "_" >> \o ToStr(conn.from.n)
        \o << "_" >> \o ToStr(conn.to.n)

\* weight.toFixed(2) of a number given in thousandths: the number of
\* hundredths, rounded half away from zero
ToFixed2(w) == IF w >= 0 THEN (w + 5) \div 10 ELSE -((-w + 5) \div 10)

UpperInitial(type) ==
    CASE type = "input" -> "I" [] type = "output" -> "O" [] type = "hidden" -> "H"
      [] type = "memory" -> "M" [] OTHER -> "?"

\* ------------------------------------------------------- element records
BaseEdgeColor == "#6b7280"

NodeElement(node) ==
    [id |-> ToStr(node.id.n),
     label |-> << UpperInitial(node.type.s) >> \o ToStr(node.id.n),
     type |-> node.type.s, activation |-> node.activation.s,
     bias |-> node.bias.n, threshold |-> node.threshold.n]

\* the data label is the weight alone; the displayed label is computed by
\* the stylesheet (EdgeLabel below)
EdgeElement(conn, sw) ==
    [id |-> EdgeId(conn), source |-> ToStr(conn.from.n), target |-> ToStr(conn.to.n),
     weight |-> conn.weight.n, plasticity |-> conn.plasticity.n,
     enabled |-> Truthy(conn.enabled),
     label |-> [shown |-> sw, weight |-> IF sw THEN ToFixed2(conn.weight.n) ELSE 0],
     color |-> BaseEdgeColor]

\* connections.filter(conn => conn.enabled || showDisabledConnections)
FilterConnections(conns, showDisabled) ==
    SelectSeq(conns, LAMBDA conn : Truthy(conn.enabled) \/ showDisabled)

\* ---------------------------------------------------------------- engine
\* Cytoscape adds the elements in order and leaves out an element whose id
\* is already present and an edge whose source or target is not a node.
RECURSIVE AddNodes(_, _)
AddNodes(present, nodes) ==
    IF nodes = << >> THEN present
    ELSE LET el == NodeElement(Head(nodes))
         IN AddNodes(IF \E x \in present : x.id = el.id THEN present ELSE present \cup {el},
                     Tail(nodes))

RECURSIVE AddEdges(_, _, _, _)
AddEdges(present, nodeIds, conns, sw) ==
    IF conns = << >> THEN present
    ELSE LET el == EdgeElement(Head(conns), sw)
             ok == /\ el.source \in nodeIds
                   /\ el.target \in nodeIds
                   /\ ~ \E x \in present : x.id = el.id
         IN AddEdges(IF ok THEN present \cup {el} ELSE present, nodeIds, Tail(conns), sw)

\* EdgeColor with >= at the positive and <= at the negative thresholds
EdgeColorInclusive(weight, enabled) ==
    IF ~enabled THEN "#d1d5db"
    ELSE IF weight >= 700 THEN "#059669"
    ELSE IF weight >= 300 THEN "#10b981"
    ELSE IF weight > 0 THEN "#34d399"
    ELSE IF weight <= -700 THEN "#dc2626"
    ELSE IF weight <= -300 THEN "#ef4444"
    ELSE IF weight < 0 THEN "#f87171"
    ELSE "#6b7280"

\* applyEdgeStyle: the colour bypass written on one edge
EdgeColor(weight, enabled) ==
    IF ~enabled THEN "#d1d5db"
    ELSE IF weight > 700 THEN "#059669"
    ELSE IF weight > 300 THEN "#10b981"
    ELSE IF weight > 0 THEN "#34d399"
    ELSE IF weight < -700 THEN "#dc2626"
    ELSE IF weight < -300 THEN "#ef4444"
    ELSE IF weight < 0 THEN "#f87171"
    ELSE "#6b7280"

applyEdgeStyle(edge) == [edge EXCEPT !.color = EdgeColor(edge.weight, edge.enabled)]

\* the stylesheet's label function of an edge of an engine built with
\* weight labels sw
\* the label function without its first line, `if (!showWeights) return ''`
EdgeLabelUnconditional(edge, sw) ==
    IF ~edge.enabled THEN [text |-> "DISABLED", weight |-> 0, plasticity |-> 0]
    ELSE [text |-> "weight/plasticity", weight |-> ToFixed2(edge.weight),
          plasticity |-> ToFixed2(edge.plasticity)]

EdgeLabel(edge, sw) ==
    IF ~sw THEN [text |-> "", weight |-> 0, plasticity |-> 0]
    ELSE IF ~edge.enabled THEN [text |-> "DISABLED", weight |-> 0, plasticity |-> 0]
    ELSE [text |-> "weight/plasticity", weight |-> ToFixed2(edge.weight),
          plasticity |-> ToFixed2(edge.plasticity)]

\* ----------------------------------------------------------------- state
VARIABLES
    batched,                  \* the root batches state updates made after an await
    mounted,                  \* the component is mounted
    brainId,                  \* the brainId prop
    brainData,                \* index in Catalogue of the accepted snapshot, 0 = null
    loading, error,
    layout, showWeights, nodeSize, showStats, showDisabledConnections,
    requests,                 \* fetches in flight, each with its closure's isMounted
    issued,                   \* number of fetches started so far
    engines,                  \* every Cytoscape instance created so far
    cyInstanceRef,            \* index in engines, 0 = null
    cleanupCy,                \* the instance the construction effect's cleanup destroys
    isFirstRender,
    timers,                   \* pending setTimeout callbacks
    throws,                   \* exceptions raised so far
    lastResponse,             \* how the last step dropped or rejected a payload
    staleCall,                \* the last step called a destroyed instance
    vPayload, vMutations, vResult,  \* the validator's input and result
    selectedElement,          \* the useState hook behind the details panel
    evt,                      \* the tap event delivered last
    elements,                 \* the elements of the instance the tap handlers are bound to
    statsData, brainStats,    \* the snapshot calculateBrainStats reads and its result
    edgeStyle,                 \* one edge handed to applyEdgeStyle
    container,                \* offsetWidth and offsetHeight of the drawing surface
    viewTimers,               \* pending resize and layout callbacks
    lastRun,                  \* the engine operations of the resize or layout path run last
    afterLayout,              \* what was done to the instance since its last layout run
    hasElements,               \* cy.elements().length > 0
    edgeData,                 \* the snapshot whose edge lists are built
    edgeShowDisabled,         \* showDisabledConnections while they are built
    handed,                   \* the edge list each path handed to the engine last
    flagged,                  \* the edge ids each path warned about
    ranPaths,                  \* the paths that have handed a list
    wsMounted,                \* the provider that uses the hook is mounted
    ws,                       \* the state of the socket created last
    wsRef,                    \* wsRef.current is set
    wsSockets,                \* number of sockets created so far
    isConnected, reconnectAttempts,
    isConnectingRef,
    reconnectTimeoutRef,      \* a reconnect callback is pending
    wsLast,                    \* the event handled last
    storeLoading, storeError, \* loading and error of the shared store
    storeOps,                 \* where each store operation stands
    population, stats,        \* the bodies the store holds
    lastEvent,                \* type of the WebSocket message handled last
    wsFetches,                \* fetches started by the message handler, in flight
    storeLast,                \* the step of the store taken last
    evolveFailed,             \* the steps of the last startEvolution that failed
    isEvolving, evolutionHistory, \* state of the evolution page
    evolvePos,                \* what handleStartEvolution awaits
    refresh,                   \* what the deferred refresh of the page awaits
    routeId, detailMounted,   \* the brain detail page: id of the route, mounted
    brainDetail,              \* id of the body held as brainDetail, 0 for null
    detailLoading, detailError,
    detailPending,            \* requests of the page awaiting their answer, per id
    detailIssued,             \* requests issued so far
    detailLast                \* the answer handled last

hooks == << brainData, loading, error, layout, showWeights, nodeSize, showStats,
            showDisabledConnections >>

engineVars == << engines, cyInstanceRef, cleanupCy, isFirstRender, timers, throws, staleCall >>

validatorVars == << vPayload, vMutations, vResult >>

selectionVars == << selectedElement, evt, elements >>

statsVars == << statsData, brainStats >>

styleVars == << edgeStyle >>

\* the validator before a payload is handed to it
\* what a variable of a part holds in the specifications of the other
\* parts, where that part does not exist
NotInUse == "not in use"

ValidatorIdle == vPayload = NotInUse /\ vMutations = 0 /\ vResult = "none"

\* useState<SelectedElement | null>(null), no tap delivered, no instance
NoData == [id |-> << >>]

NoSelection == [type |-> "null", data |-> NoData]

NoEvent == [target |-> "none", data |-> NoData]

SelectionIdle ==
    /\ selectedElement = NotInUse
    /\ evt = NotInUse
    /\ elements = NotInUse

\* calculateBrainStats returns null while brainData is null
NoStats == [isNull |-> TRUE]

StatsIdle == statsData = NotInUse /\ brainStats = NotInUse

\* no edge is being styled; "" is a property without a bypass
Unstyled(edge) == [edge |-> edge, lineColor |-> "", arrowColor |-> ""]

StyleIdle == edgeStyle = NotInUse

viewVars == << container, viewTimers, lastRun, afterLayout, hasElements >>

\* no resize or layout path has run
NoRun == [path |-> "none", width |-> 0, height |-> 0, ops |-> << >>]

NoLayout == [ran |-> FALSE, fit |-> FALSE, style |-> FALSE]

ViewIdle ==
    /\ container = NotInUse
    /\ viewTimers = {}
    /\ lastRun = NotInUse
    /\ afterLayout = NotInUse
    /\ hasElements = FALSE

edgeVars == << edgeData, edgeShowDisabled, handed, flagged, ranPaths >>

\* no edge list has been built
NoList == [showDisabled |-> FALSE, list |-> << >>]

EdgesIdle ==
    /\ edgeData = NotInUse
    /\ edgeShowDisabled = FALSE
    /\ handed = NotInUse
    /\ flagged = NotInUse
    /\ ranPaths = {}

socketVars == << wsMounted, ws, wsRef, wsSockets, isConnected, reconnectAttempts,
                 isConnectingRef, reconnectTimeoutRef, wsLast >>

\* the hook before its provider mounts
SocketIdle ==
    /\ wsMounted = FALSE
    /\ ws = "none"
    /\ wsRef = FALSE
    /\ wsSockets = 0
    /\ isConnected = FALSE
    /\ reconnectAttempts = 0
    /\ isConnectingRef = FALSE
    /\ reconnectTimeoutRef = FALSE
    /\ wsLast = "none"

storeVars == << storeLoading, storeError, storeOps, population, stats, lastEvent,
               wsFetches, storeLast, evolveFailed >>

StoreOperations == {"fetchPopulation", "fetchStats", "startEvolution", "evaluatePopulation"}

Fetches == {"fetchPopulation", "fetchStats"}

StatsFields == {"size", "avg_fitness", "max_fitness", "avg_nodes", "avg_connections",
                "generation"}

\* a response body of GET /api/population: an array of brain ids, or
\* something that is no array
PopulationBody(kind, items) == [kind |-> kind, items |-> items]

\* a response body of GET /api/stats
StatsBody(kind, n) == [kind |-> kind, f |-> [k \in StatsFields |-> Num(n)]]

\* no body: what a step that handles no answer records
NoBody == [kind |-> "none"]

NoStep == [step |-> "none", op |-> "", ok |-> TRUE, body |-> NoBody, started |-> << >>]

\* the store as create() builds it: population [], stats all 0,
\* loading false, error null (""), lastEvent null, nothing started
StoreCreated ==
    /\ storeLoading = FALSE
    /\ storeError = ""
    /\ storeOps = [op \in StoreOperations |-> "idle"]
    /\ population = PopulationBody("array", << >>)
    /\ stats = StatsBody("object", 0)
    /\ lastEvent = "null"
    /\ wsFetches = [ep \in Fetches |-> 0]
    /\ storeLast = NoStep
    /\ evolveFailed = {}

\* the store where no page uses it
StoreIdle ==
    /\ storeLoading = FALSE
    /\ storeError = ""
    /\ storeOps = NotInUse
    /\ population = NotInUse
    /\ stats = NotInUse
    /\ lastEvent = "null"
    /\ wsFetches = NotInUse
    /\ storeLast = NotInUse
    /\ evolveFailed = {}

pageVars == << isEvolving, evolutionHistory, evolvePos, refresh >>

\* the evolution page after its first render: one entry in the history
PageRendered ==
    /\ isEvolving = FALSE
    /\ evolutionHistory = << "success" >>
    /\ evolvePos = "idle"
    /\ refresh = "none"

\* the evolution page where it is not rendered
PageIdle ==
    /\ isEvolving = FALSE
    /\ evolutionHistory = << >>
    /\ evolvePos = "idle"
    /\ refresh = "none"

detailVars == << routeId, detailMounted, brainDetail, detailLoading, detailError,
                detailPending, detailIssued, detailLast >>

\* 0 stands for a route without id
RouteIds == {0, 7, 8}

NoAnswer == [id |-> 0, stored |-> FALSE, current |-> TRUE, mounted |-> TRUE]

\* the brain detail page before it is rendered
DetailIdle ==
    /\ routeId = 0
    /\ detailMounted = FALSE
    /\ brainDetail = 0
    /\ detailLoading = TRUE
    /\ detailError = ""
    /\ detailPending = NotInUse
    /\ detailIssued = 0
    /\ detailLast = NotInUse

\* the state of the parts that are specified on their own
otherVars == << validatorVars, selectionVars, statsVars, styleVars,
             viewVars,
             edgeVars,
             socketVars,
             storeVars,
             pageVars,
             detailVars >>

vars == << batched, mounted, brainId, hooks, requests, issued, engineVars, lastResponse,
           otherVars >>

\* the component's state as one record, threaded through the effects
Snapshot ==
    [brainId |-> brainId, brainData |-> brainData, loading |-> loading, error |-> error,
     layout |-> layout, showWeights |-> showWeights, nodeSize |-> nodeSize,
     showStats |-> showStats, showDisabledConnections |-> showDisabledConnections,
     engines |-> engines, cyInstanceRef |-> cyInstanceRef, cleanupCy |-> cleanupCy,
     isFirstRender |-> isFirstRender, timers |-> timers, throws |-> throws,
     stale |-> FALSE]

\* the graph view (and with it the div that cyRef points to) is rendered
\* only when neither the loading view nor the error view is returned
SurfaceRendered(st) == ~st.loading /\ st.error = NoError

\* a div that is no longer rendered is removed from the document: the
\* engines bound to it keep a detached container of size zero
Render(st) ==
    IF SurfaceRendered(st) THEN st
    ELSE [st EXCEPT !.engines = [i \in DOMAIN @ |-> [@[i] EXCEPT !.attached = FALSE]]]

IsLive(st, cy) == ~st.engines[cy].destroyed

\* a method of instance cy is called: on a destroyed instance the call is
\* recorded and has no effect on what is rendered
Call(st, cy) == [st EXCEPT !.stale = @ \/ ~IsLive(st, cy)]

Timer(kind, cy) == [kind |-> kind, cy |-> cy]

\* what a failure choice may be: the construction throws before or after
\* the instance exists, and the resync throws after removing the edges
NoFailure == [construct |-> "none", resync |-> FALSE]

FailureChoices ==
    {NoFailure, [construct |-> "before", resync |-> FALSE],
     [construct |-> "after", resync |-> FALSE], [construct |-> "none", resync |-> TRUE]}

\* the choices that differ from one another in the current state
Failures == IF throws < MaxThrows THEN FailureChoices ELSE {NoFailure}

\* the choices for a commit that runs the construction effect only
ConstructFailures == {f \in Failures : ~f.resync}

\* the choices for a commit that runs the resync effect only
ResyncFailures == {f \in Failures : f.construct = "none"}

\* --------------------------------------------------------------- effects
\* cy.destroy(): the instance renders nothing any more
Destroyed ==
    [destroyed |-> TRUE, attached |-> FALSE, nodes |-> {}, edges |-> {},
     showWeights |-> FALSE]

\* cy.destroy() clears no timer: the callbacks pending on the instance stay
\* pending.  All a callback does to a destroyed instance is call it, so
\* from then on they are kept as one, whatever the instance.
StaleTimer == [kind |-> "stale", cy |-> 0]

Outlive(pending, cy) ==
    {t \in pending : t.cy # cy} \cup
        IF \E t \in pending : t.cy = cy THEN {StaleTimer} ELSE {}

\* a callback set on instance cy
Schedule(st, kind, cy) ==
    [st EXCEPT !.timers = @ \cup {IF IsLive(st, cy) THEN Timer(kind, cy) ELSE StaleTimer}]

\* useEffect(..., [brainData, layout, showWeights, nodeSize]): the cleanup
\* returned by the previous run, then the body
ConstructionCleanup(st) ==
    IF st.cleanupCy = 0 THEN st
    ELSE [st EXCEPT !.engines[st.cleanupCy] = Destroyed,
                    !.timers = Outlive(@, st.cleanupCy),
                    !.cleanupCy = 0]

\* the label the stylesheet of an instance renders for an edge: the
\* function closes over the showWeights of the render that built it
RenderedLabel(engine, edge) == EdgeLabel(edge, engine.showWeights)

\* the instance cytoscape() returns for the elements built from the snapshot
EngineOf(nodes, conns, showDisabled, sw) ==
    [destroyed |-> FALSE, attached |-> TRUE, nodes |-> nodes,
     edges |-> AddEdges({}, {n.id : n \in nodes}, FilterConnections(conns, showDisabled), sw),
     showWeights |-> sw]

NewEngine(st) ==
    EngineOf(AddNodes({}, Catalogue[st.brainData].nodes),
             Catalogue[st.brainData].connections, st.showDisabledConnections,
             st.showWeights)

\* cytoscape() has returned instance cy: the 50 ms callback is set and
\* cyInstanceRef.current is assigned
Created(st, cy) ==
    [st EXCEPT !.engines = Append(@, NewEngine(st)),
               !.timers = @ \cup {Timer("view", cy)},
               !.cyInstanceRef = cy]

\* the steps after that: the tap handlers, fit and center may throw into
\* the catch block; otherwise the two 200 ms callbacks are set and the
\* cleanup that destroys cy is returned
AfterCreation(created, cy, fail) ==
    IF fail = "after"
    THEN [created EXCEPT !.error = InitError, !.throws = @ + 1]
    ELSE [created EXCEPT !.timers = @ \cup {Timer("style", cy), Timer("view", cy)},
                         !.cleanupCy = cy]

\* the try block of the construction effect
ConstructionTry(st, fail) ==
    IF fail = "before"
    THEN [st EXCEPT !.error = InitError, !.throws = @ + 1]
    ELSE AfterCreation(Created(st, Len(st.engines) + 1), Len(st.engines) + 1, fail)

ConstructionBody(st, f) ==
    IF ~SurfaceRendered(st) \/ st.brainData = 0 THEN st
    ELSE ConstructionTry(st, IF st.throws < MaxThrows THEN f.construct ELSE "none")

ConstructionEffect(st, f) == ConstructionBody(ConstructionCleanup(st), f)

\* RemoveEdges with cy.elements().remove(): the nodes go as well
RemoveElements(st, cy) ==
    [Call(st, cy) EXCEPT !.engines[cy].edges = IF IsLive(st, cy) THEN {} ELSE @,
                         !.engines[cy].nodes = IF IsLive(st, cy) THEN {} ELSE @]

\* cy.elements('edge').remove()
RemoveEdges(st, cy) ==
    [Call(st, cy) EXCEPT !.engines[cy].edges = IF IsLive(st, cy) THEN {} ELSE @]

\* cy.add(newEdges), then applyEdgeStyles after 50 ms
AddNewEdges(st, cy, conns) ==
    Schedule([st EXCEPT !.engines[cy].edges =
                            IF IsLive(st, cy)
                            THEN AddEdges({}, {n.id : n \in st.engines[cy].nodes},
                                          FilterConnections(conns, st.showDisabledConnections),
                                          st.showWeights)
                            ELSE @],
             "style", cy)

\* the rest of the try block once the edges are removed: an exception is
\* caught and only logged
ResyncTry(removed, cy, conns, fail) ==
    IF fail THEN [removed EXCEPT !.throws = @ + 1] ELSE AddNewEdges(removed, cy, conns)

\* useEffect(..., [showDisabledConnections, brainData, showWeights])
ResyncEffect(st, f) ==
    IF st.cyInstanceRef = 0 \/ st.brainData = 0 THEN st
    ELSE IF st.isFirstRender THEN [st EXCEPT !.isFirstRender = FALSE]
    ELSE ResyncTry(RemoveEdges(st, st.cyInstanceRef), st.cyInstanceRef,
                   Catalogue[st.brainData].connections,
                   f.resync /\ st.throws < MaxThrows)

\* useEffect(..., [showStats, layout, brainData])
StatsResizeEffect(st) ==
    IF st.cyInstanceRef # 0 /\ st.brainData # 0
    THEN Schedule(st, "view", st.cyInstanceRef)
    ELSE st

\* useEffect(..., [showWeights])
WeightsStyleEffect(st) ==
    IF st.cyInstanceRef # 0
    THEN Schedule(st, "style", st.cyInstanceRef)
    ELSE st

\* RunConstruction with showDisabledConnections among the dependencies
RunConstructionOnToggle(st, changed, f) ==
    IF changed \cap {"brainData", "layout", "showWeights", "nodeSize",
                     "showDisabledConnections"} # {}
    THEN ConstructionEffect(st, f) ELSE st

\* each effect runs when one of its dependencies changed
RunConstruction(st, changed, f) ==
    IF changed \cap {"brainData", "layout", "showWeights", "nodeSize"} # {}
    THEN ConstructionEffect(st, f) ELSE st

RunResync(st, changed, f) ==
    IF changed \cap {"showDisabledConnections", "brainData", "showWeights"} # {}
    THEN ResyncEffect(st, f) ELSE st

RunStatsResize(st, changed) ==
    IF changed \cap {"showStats", "layout", "brainData"} # {}
    THEN StatsResizeEffect(st) ELSE st

RunWeightsStyle(st, changed) ==
    IF "showWeights" \in changed THEN WeightsStyleEffect(st) ELSE st

\* One commit: the new render's DOM, then every effect one of whose
\* dependencies changed, in the order of declaration, then the render
\* caused by a setError made inside an effect.
Commit(st, changed, f) ==
    Render(RunWeightsStyle(
               RunStatsResize(
                   RunResync(RunConstruction(Render(st), changed, f), changed, f),
                   changed),
               changed))

NoResponse == "none"

\* the component's variables after an operation that ends in state st
Install(st, response) ==
    /\ brainId' = st.brainId
    /\ brainData' = st.brainData
    /\ loading' = st.loading
    /\ error' = st.error
    /\ layout' = st.layout
    /\ showWeights' = st.showWeights
    /\ nodeSize' = st.nodeSize
    /\ showStats' = st.showStats
    /\ showDisabledConnections' = st.showDisabledConnections
    /\ engines' = st.engines
    /\ cyInstanceRef' = st.cyInstanceRef
    /\ cleanupCy' = st.cleanupCy
    /\ isFirstRender' = st.isFirstRender
    /\ timers' = st.timers
    /\ throws' = st.throws
    /\ staleCall' = st.stale
    /\ lastResponse' = response

\* --------------------------------------------------------------- loader
AllDisabled(data) ==
    /\ Len(data.connections) > 0
    /\ \A i \in 1..Len(data.connections) : ~Truthy(data.connections[i].enabled)

\* the state updates made by fetchBrainData after the response arrived,
\* for a closure whose isMounted is still true
AcceptUpdates(st, body) ==
    [st EXCEPT !.brainData = body,
               !.showDisabledConnections = IF AllDisabled(Catalogue[body]) THEN TRUE ELSE @,
               !.loading = FALSE]

RejectUpdates(st, msg) == [st EXCEPT !.error = msg, !.loading = FALSE]

\* the same updates when every setState is rendered and committed on its
\* own: setBrainData, then setShowDisabledConnections, then setLoading
CommitBrainData(st, body, f) == Commit([st EXCEPT !.brainData = body], {"brainData"}, f)

CommitAutoEnable(st, body, f) ==
    IF AllDisabled(Catalogue[body]) /\ ~st.showDisabledConnections
    THEN Commit([st EXCEPT !.showDisabledConnections = TRUE], {"showDisabledConnections"}, f)
    ELSE st

CommitLoaded(st, f) ==
    IF st.loading THEN Commit([st EXCEPT !.loading = FALSE], {}, f) ELSE st

AcceptUnbatched(st, body, f) ==
    CommitLoaded(CommitAutoEnable(CommitBrainData(st, body, f), body, f), f)

\* FailureOf without the throw for a payload that fails validation
FailureOfWithoutValidation(kind, body) ==
    CASE kind = "network" -> NetworkError
      [] kind = "http" -> HttpError
      [] PreValidationThrows(Catalogue[body]) -> TypeErrorMsg
      [] OTHER -> NoError

\* the message the catch block stores for an outcome, NoError if it is accepted
FailureOf(kind, body) ==
    CASE kind = "network" -> NetworkError
      [] kind = "http" -> HttpError
      [] PreValidationThrows(Catalogue[body]) -> TypeErrorMsg
      [] ~validateBrainData(Catalogue[body]) -> ValidationError
      [] OTHER -> NoError

\* HandleResponse without the isMounted checks
HandleResponseUnguarded(st, alive, kind, body, f) ==
    IF FailureOf(kind, body) # NoError
    THEN Commit(RejectUpdates(st, FailureOf(kind, body)), {}, f)
    ELSE IF batched
    THEN Commit(AcceptUpdates(st, body),
                {"brainData"} \cup
                    IF AllDisabled(Catalogue[body]) /\ ~st.showDisabledConnections
                    THEN {"showDisabledConnections"} ELSE {},
                f)
    ELSE AcceptUnbatched(st, body, f)

HandleResponse(st, alive, kind, body, f) ==
    IF ~alive THEN st
    ELSE IF FailureOf(kind, body) # NoError
    THEN Commit(RejectUpdates(st, FailureOf(kind, body)), {}, f)
    ELSE IF batched
    THEN Commit(AcceptUpdates(st, body),
                {"brainData"} \cup
                    IF AllDisabled(Catalogue[body]) /\ ~st.showDisabledConnections
                    THEN {"showDisabledConnections"} ELSE {},
                f)
    ELSE AcceptUnbatched(st, body, f)

\* what became of a response, when it was not applied: dropped because the
\* closure's isMounted is false though its payload would have been
\* accepted ("staleValid"), thrown out by the validator ("invalid") or by
\* the loop before it ("uninspectable"), or no payload came at all
\* ("transport": fetch rejected, or a status that is not 2xx)
Verdict(alive, kind, body) ==
    CASE kind # "body" -> IF alive THEN "transport" ELSE "none"
      [] PreValidationThrows(Catalogue[body]) -> IF alive THEN "uninspectable" ELSE "none"
      [] ~validateBrainData(Catalogue[body]) -> IF alive THEN "invalid" ELSE "none"
      [] OTHER -> IF alive THEN "none" ELSE "staleValid"

\* Respond with a loader that fetches again after a failure
RespondRetrying(r, kind, body, f) ==
    /\ r \in requests
    /\ kind \in {"network", "http", "body"}
    /\ IF kind = "body" THEN body \in BodiesFor(r.id) ELSE body = 0
    /\ requests' = IF r.alive /\ FailureOf(kind, body) # NoError THEN requests
                   ELSE requests \ {r}
    /\ issued' = IF r.alive /\ FailureOf(kind, body) # NoError THEN issued + 1 ELSE issued
    /\ Install(HandleResponse(Snapshot, r.alive, kind, body, f),
               Verdict(r.alive, kind, body))
    /\ UNCHANGED << batched, mounted, otherVars >>

\* a response (or a transport failure) reaches the fetchBrainData call r
Respond(r, kind, body, f) ==
    /\ r \in requests
    /\ kind \in {"network", "http", "body"}
    /\ IF kind = "body" THEN body \in BodiesFor(r.id) ELSE body = 0
    /\ requests' = requests \ {r}
    /\ Install(HandleResponse(Snapshot, r.alive, kind, body, f),
               Verdict(r.alive, kind, body))
    /\ UNCHANGED << batched, mounted, issued, otherVars >>

\* the fetch effect, [brainId]: the cleanup of the previous run clears its
\* isMounted, then a fetch starts unless the snapshot held has the new id
ChangeBrainId(id) ==
    /\ mounted
    /\ id \in BrainIds \ {brainId}
    /\ LET stale == {[r EXCEPT !.alive = FALSE] : r \in requests}
           fetch == brainData = 0 \/ Catalogue[brainData].id # id
           st == [Snapshot EXCEPT !.brainId = id]
       IN /\ fetch => issued < MaxRequests /\ Len(engines) < MaxEngines
          /\ requests' = IF fetch
                         THEN stale \cup {[id |-> id, alive |-> TRUE]}
                         ELSE stale
          /\ issued' = IF fetch THEN issued + 1 ELSE issued
          /\ Install(IF fetch THEN Render([st EXCEPT !.loading = TRUE]) ELSE st,
                     NoResponse)
    /\ UNCHANGED << batched, mounted, otherVars >>

\* ---------------------------------------------------------- user actions
\* applyEdgeStyles(cy): applyEdgeStyle on every edge of the instance
applyEdgeStyles(st, cy) ==
    [Call(st, cy) EXCEPT !.engines[cy].edges = IF IsLive(st, cy)
                                               THEN {applyEdgeStyle(e) : e \in @} ELSE @]

Displayed == mounted /\ SurfaceRendered(Snapshot)

SetLayout(l, f) ==
    /\ Displayed
    /\ l \in Layouts \ {layout}
    /\ Len(engines) < MaxEngines
    /\ Install(Commit([Snapshot EXCEPT !.layout = l], {"layout"}, f), NoResponse)
    /\ UNCHANGED << batched, mounted, requests, issued, otherVars >>

ToggleShowWeights(f) ==
    /\ Displayed
    /\ Len(engines) < MaxEngines
    /\ Install(Commit([Snapshot EXCEPT !.showWeights = ~showWeights], {"showWeights"}, f),
               NoResponse)
    /\ UNCHANGED << batched, mounted, requests, issued, otherVars >>

SetNodeSize(n, f) ==
    /\ Displayed
    /\ n \in NodeSizes \ {nodeSize}
    /\ Len(engines) < MaxEngines
    /\ Install(Commit([Snapshot EXCEPT !.nodeSize = n], {"nodeSize"}, f),
               NoResponse)
    /\ UNCHANGED << batched, mounted, requests, issued, otherVars >>

ToggleShowStats ==
    /\ Displayed
    /\ Install(Commit([Snapshot EXCEPT !.showStats = ~showStats], {"showStats"}, NoFailure),
               NoResponse)
    /\ UNCHANGED << batched, mounted, requests, issued, otherVars >>

ToggleShowDisabledConnections(f) ==
    /\ Displayed
    /\ Install(Commit([Snapshot EXCEPT !.showDisabledConnections = ~showDisabledConnections],
                      {"showDisabledConnections"}, f),
               NoResponse)
    /\ UNCHANGED << batched, mounted, requests, issued, otherVars >>

\* the apply-layout button
applyLayout ==
    /\ Displayed
    /\ cyInstanceRef # 0
    /\ Install(Schedule(Call(Snapshot, cyInstanceRef), "style", cyInstanceRef),
               NoResponse)
    /\ UNCHANGED << batched, mounted, requests, issued, otherVars >>

\* the reset-view button: cy.fit(), cy.center()
resetView ==
    /\ Displayed
    /\ cyInstanceRef # 0
    /\ Install(Call(Snapshot, cyInstanceRef), NoResponse)
    /\ UNCHANGED << batched, mounted, requests, issued, otherVars >>

\* the force-style button: the colour of every edge is written at once
forceStyleUpdate ==
    /\ Displayed
    /\ cyInstanceRef # 0
    /\ Install(applyEdgeStyles(Snapshot, cyInstanceRef), NoResponse)
    /\ UNCHANGED << batched, mounted, requests, issued, otherVars >>

\* the window's resize event
handleResize ==
    /\ mounted
    /\ cyInstanceRef # 0
    /\ Schedule(Snapshot, "view", cyInstanceRef).timers # timers
    /\ Install(Schedule(Snapshot, "view", cyInstanceRef),
               NoResponse)
    /\ UNCHANGED << batched, mounted, requests, issued, otherVars >>

\* the state and the refs of an unmounted component are discarded (the
\* hooks keep nothing); the instances and the callbacks set on them remain
Discard(st) ==
    [st EXCEPT !.brainData = 0, !.loading = TRUE, !.error = NoError,
               !.layout = "concentric", !.showWeights = TRUE, !.nodeSize = 30,
               !.showStats = TRUE, !.showDisabledConnections = FALSE,
               !.cyInstanceRef = 0, !.cleanupCy = 0, !.isFirstRender = TRUE,
               !.engines = [i \in DOMAIN @ |-> [@[i] EXCEPT !.attached = FALSE]]]

\* unmount: every effect's cleanup runs
Unmount ==
    /\ mounted
    /\ mounted' = FALSE
    /\ requests' = {[r EXCEPT !.alive = FALSE] : r \in requests}
    /\ Install(Discard(ConstructionCleanup(Snapshot)), NoResponse)
    /\ UNCHANGED << batched, issued, otherVars >>

\* ------------------------------------------------------ deferred callbacks
\* "style": applyEdgeStyles(cy).  "view": the callbacks that only read the
\* instance or refit the view (the 50 ms element count; resize, fit and
\* center after 100 or 200 ms; the stats callback's container check,
\* resize, fit, center and layout.run): none of them changes the elements
\* or their colours, so the ones pending on an instance are kept as one.
RunTimer(st, t) ==
    CASE t.kind = "style" -> applyEdgeStyles(st, t.cy)
      [] t.kind = "stale" -> [st EXCEPT !.stale = TRUE]
      [] OTHER -> Call(st, t.cy)

Fire(t) ==
    /\ t \in timers
    /\ Install(RunTimer([Snapshot EXCEPT !.timers = @ \ {t}], t), NoResponse)
    /\ UNCHANGED << batched, mounted, requests, issued, otherVars >>

\* --------------------------------------------------------- specification
Init ==
    /\ batched \in BOOLEAN
    /\ mounted = TRUE
    /\ brainId = 7
    /\ brainData = 0
    /\ loading = TRUE
    /\ error = NoError
    /\ layout = "concentric"
    /\ showWeights = TRUE
    /\ nodeSize = 30
    /\ showStats = TRUE
    /\ showDisabledConnections = FALSE
    /\ requests = {[id |-> brainId, alive |-> TRUE]}
    /\ issued = 1
    /\ engines = << >>
    /\ cyInstanceRef = 0
    /\ cleanupCy = 0
    /\ isFirstRender = TRUE
    /\ timers = {}
    /\ throws = 0
    /\ lastResponse = NoResponse
    /\ staleCall = FALSE
    /\ ValidatorIdle
    /\ SelectionIdle
    /\ StatsIdle
    /\ StyleIdle
    /\ ViewIdle
    /\ EdgesIdle
    /\ SocketIdle
    /\ StoreIdle
    /\ PageIdle
    /\ DetailIdle

Next ==
    \/ \E r \in requests, kind \in {"network", "http", "body"},
          body \in 0..Len(Catalogue), f \in Failures : Respond(r, kind, body, f)
    \/ \E id \in BrainIds : ChangeBrainId(id)
    \/ \E l \in Layouts, f \in ConstructFailures : SetLayout(l, f)
    \/ \E f \in Failures : ToggleShowWeights(f)
    \/ \E n \in NodeSizes, f \in ConstructFailures : SetNodeSize(n, f)
    \/ ToggleShowStats
    \/ \E f \in ResyncFailures : ToggleShowDisabledConnections(f)
    \/ applyLayout
    \/ resetView
    \/ forceStyleUpdate
    \/ handleResize
    \/ Unmount
    \/ \E t \in timers : Fire(t)

Spec == Init /\ [][Next]_vars

\* ------------------------------------------------- the validator on its own
\* values a field of a fetched payload may hold
IdValues == {Num(0), Num(1), Undef}

TextValues == {Str("input"), Str(""), Undef}

NumberValues == {Num(0), Num(500), Undef, Str("x")}

FlagValues == {Bool(TRUE), Bool(FALSE), Undef, Num(1)}

NodeFieldValues(field) ==
    CASE field = "id" -> IdValues
      [] field \in {"type", "activation"} -> TextValues
      [] OTHER -> NumberValues

ConnFieldValues(field) ==
    CASE field \in {"id", "from", "to"} -> IdValues
      [] field = "enabled" -> FlagValues
      [] OTHER -> NumberValues

\* one field of the payload takes another value
MutateTop ==
    \/ \E k \in {"object", "null", "number"} : vPayload' = [vPayload EXCEPT !.kind = k]
    \/ \E b \in BOOLEAN : vPayload' = [vPayload EXCEPT !.nodesArr = b]
    \/ \E c \in {"array", "undef", "other"} : vPayload' = [vPayload EXCEPT !.connsShape = c]
    \/ \E v \in NumberValues : vPayload' = [vPayload EXCEPT !.gp = v]
    \/ \E v \in NumberValues : vPayload' = [vPayload EXCEPT !.fitness = v]
    \/ \E v \in NumberValues : vPayload' = [vPayload EXCEPT !.age = v]

MutateNode ==
    \E i \in 1..Len(vPayload.nodes),
       field \in {"id", "type", "activation", "bias", "threshold"} :
        \E v \in NodeFieldValues(field) :
            vPayload' = [vPayload EXCEPT !.nodes[i][field] = v]

MutateConn ==
    \E i \in 1..Len(vPayload.connections),
       field \in {"id", "from", "to", "weight", "plasticity", "enabled"} :
        \E v \in ConnFieldValues(field) :
            vPayload' = [vPayload EXCEPT !.connections[i][field] = v]

componentVars ==
    << batched, mounted, brainId, hooks, requests, issued, engineVars, lastResponse >>

outsideValidate == << componentVars, selectionVars, statsVars, styleVars,
    viewVars,
    edgeVars,
    socketVars,
    storeVars,
    pageVars,
    detailVars >>

Mutate ==
    /\ vResult = "none"
    /\ vMutations < MaxMutations
    /\ MutateTop \/ MutateNode \/ MutateConn
    /\ vPayload' # vPayload
    /\ vMutations' = vMutations + 1
    /\ UNCHANGED << vResult, outsideValidate >>

Validate ==
    /\ vResult = "none"
    /\ vResult' = IF validateBrainData(vPayload) THEN "accept" ELSE "reject"
    /\ UNCHANGED << vPayload, vMutations, outsideValidate >>

\* the life-cycle state before mount; the specifications of the parts
\* (validator, tap handlers, statistics, edge style) do not read it and
\* hold it fixed
ComponentIdle ==
    /\ batched = TRUE
    /\ mounted = FALSE
    /\ brainId = 7
    /\ brainData = 0
    /\ loading = TRUE
    /\ error = NoError
    /\ layout = "concentric"
    /\ showWeights = TRUE
    /\ nodeSize = 30
    /\ showStats = TRUE
    /\ showDisabledConnections = FALSE
    /\ requests = {}
    /\ issued = 0
    /\ engines = << >>
    /\ cyInstanceRef = 0
    /\ cleanupCy = 0
    /\ isFirstRender = TRUE
    /\ timers = {}
    /\ throws = 0
    /\ lastResponse = NoResponse
    /\ staleCall = FALSE

InitValidate ==
    /\ ComponentIdle
    /\ vPayload \in {Example7, AllOff8, ZeroId7}
    /\ vMutations = 0
    /\ vResult = "none"
    /\ SelectionIdle
    /\ StatsIdle
    /\ StyleIdle
    /\ ViewIdle
    /\ EdgesIdle
    /\ SocketIdle
    /\ StoreIdle
    /\ PageIdle
    /\ DetailIdle

NextValidate == Mutate \/ Validate

SpecValidate == InitValidate /\ [][NextValidate]_vars

\* --------------------------------------------------------- tap handlers
\* the snapshots the loader accepts
Accepted == {Catalogue[i] : i \in {j \in 1..Len(Catalogue) : validateBrainData(Catalogue[j])}}

\* the elements of an instance built from snapshot data
ElementsOf(data, showDisabled, sw) ==
    [nodes |-> AddNodes({}, data.nodes),
     edges |-> {applyEdgeStyle(e) :
                   e \in AddEdges({}, {n.id : n \in AddNodes({}, data.nodes)},
                                  FilterConnections(data.connections, showDisabled), sw)}]

Instances == {ElementsOf(data, sd, sw) : data \in Accepted, sd \in BOOLEAN, sw \in BOOLEAN}

\* edge.data(): the data of the element without its style
EdgeData(e) == [k \in DOMAIN e \ {"color"} |-> e[k]]

\* what a tap can hit: the core (empty canvas), a node or an edge
Targets ==
    {[target |-> "core", data |-> NoData]}
        \cup {[target |-> "nodes", data |-> n] : n \in elements.nodes}
        \cup {[target |-> "edges", data |-> EdgeData(e)] : e \in elements.edges}

\* cy.on('tap', 'node', ...): runs when the target matches the selector
NodeTapHandler(sel, e) ==
    IF e.target = "nodes" THEN [type |-> "node", data |-> e.data] ELSE sel

\* cy.on('tap', 'edge', ...)
EdgeTapHandler(sel, e) ==
    IF e.target = "edges" THEN [type |-> "edge", data |-> e.data] ELSE sel

\* CoreTapHandler without the test evt.target === cy
CoreTapHandlerUnguarded(sel, e) == NoSelection

\* cy.on('tap', ...): runs on every tap, the event of an element bubbles
\* up to the core
CoreTapHandler(sel, e) ==
    IF e.target = "core" THEN NoSelection ELSE sel

\* the listeners of the core run in the order of their registration
Emit(sel, e) == CoreTapHandler(EdgeTapHandler(NodeTapHandler(sel, e), e), e)

outsideSelection == << componentVars, validatorVars, statsVars, styleVars,
    viewVars,
    edgeVars,
    socketVars,
    storeVars,
    pageVars,
    detailVars >>

Tap(e) ==
    /\ e \in Targets
    /\ evt' = e
    /\ selectedElement' = Emit(selectedElement, e)
    /\ UNCHANGED << elements, outsideSelection >>

\* the construction effect replaces the instance and binds the handlers to
\* the new one; selectedElement is not reset
Reconstruct(els) ==
    /\ els \in Instances \ {elements}
    /\ elements' = els
    /\ UNCHANGED << selectedElement, evt, outsideSelection >>

InitSelect ==
    /\ ComponentIdle
    /\ ValidatorIdle
    /\ StatsIdle
    /\ StyleIdle
    /\ ViewIdle
    /\ EdgesIdle
    /\ SocketIdle
    /\ StoreIdle
    /\ PageIdle
    /\ DetailIdle
    /\ selectedElement = NoSelection
    /\ evt = NoEvent
    /\ elements \in Instances

NextSelect ==
    \/ \E e \in Targets : Tap(e)
    \/ \E els \in Instances : Reconstruct(els)

SpecSelect == InitSelect /\ [][NextSelect]_vars

\* ----------------------------------------------------------- statistics
MaxStatNodes == 3     \* nodes of a snapshot handed to calculateBrainStats
MaxStatConns == 2     \* connections of such a snapshot

\* IEEE 754 results of a division: a finite quotient num/den, NaN, or an
\* infinity (num carries its sign)
Fin(num, den) == [kind |-> "fin", num |-> num, den |-> den]

NaN == [kind |-> "nan", num |-> 0, den |-> 1]

Inf(negative) == [kind |-> "inf", num |-> IF negative THEN -1 ELSE 1, den |-> 0]

\* a / b where b is an integer; negZero tells that a zero b is -0
Div(a, b, negZero) ==
    IF b # 0 THEN Fin(a, b)
    ELSE IF a = 0 THEN NaN
    ELSE Inf((a < 0) # negZero)

\* Math.sqrt keeps NaN and +Infinity; the root of a finite value is kept
\* as its radicand
Sqrt(x) == [x EXCEPT !.kind = IF @ = "fin" THEN "sqrt" ELSE @]

\* array.reduce((a, b) => a + b, 0)
RECURSIVE Sum(_)
Sum(seq) == IF seq = << >> THEN 0 ELSE Head(seq) + Sum(Tail(seq))

Abs(x) == IF x < 0 THEN -x ELSE x

\* names that the accumulator {} of the reduce inherits from
\* Object.prototype: acc[name] is a function before the first node of
\* that type is counted
InheritedKeys == {"constructor", "toString", "valueOf", "hasOwnProperty"}

\* acc[type] after k nodes of the type: (acc[type] || 0) + 1 adds numbers
\* from 0 on for a name the accumulator does not have; for an inherited
\* name it appends "1" to the text of the inherited function, k times
TypeCount(type, k) ==
    IF type \in InheritedKeys THEN Str("function () { [native code] }1") ELSE Num(k)

calculateBrainStats(data) ==
    LET enabledConnections == SelectSeq(data.connections, LAMBDA c : Truthy(c.enabled))
        weights == [i \in 1..Len(enabledConnections) |-> enabledConnections[i].weight.n]
        plasticities == [i \in 1..Len(enabledConnections) |-> enabledConnections[i].plasticity.n]
        n == Len(data.nodes)
        m == Len(weights)
    IN [isNull |-> FALSE,
        totalNodes |-> n,
        totalConnections |-> Len(enabledConnections),
        networkDensity |-> Div(Len(enabledConnections), n * (n - 1), n = 0),
        avgWeight |-> Div(Sum(weights), m, FALSE),
        \* sum((w - mean)^2) / m = (m * sum(w^2) - sum(w)^2) / m^2; with
        \* no weight the reduce returns its initial value 0
        weightStd |-> Sqrt(Div(m * Sum([i \in 1..m |-> weights[i] * weights[i]]) - Sum(weights) * Sum(weights),
                               m * m, FALSE)),
        avgPlasticity |-> Div(Sum(plasticities), m, FALSE),
        nodeTypes |-> [t \in {data.nodes[i].type.s : i \in 1..n} |->
                          TypeCount(t, Len(SelectSeq(data.nodes, LAMBDA node : node.type.s = t)))],
        positiveConnections |-> Len(SelectSeq(weights, LAMBDA w : w > 0)),
        negativeConnections |-> Len(SelectSeq(weights, LAMBDA w : w < 0)),
        strongConnections |-> Len(SelectSeq(weights, LAMBDA w : Abs(w) > 500))]

\* Number.prototype.toFixed: digits for a finite value, the name otherwise
ToFixed(x) ==
    CASE x.kind = "nan" -> "NaN"
      [] x.kind = "inf" -> IF x.num < 0 THEN "-Infinity" ELSE "Infinity"
      [] OTHER -> "digits"

\* the four computed lines of the statistics panel
StatsPanel(computed) ==
    [networkDensity |-> ToFixed(computed.networkDensity),
     avgWeight |-> ToFixed(computed.avgWeight),
     weightStd |-> ToFixed(computed.weightStd),
     avgPlasticity |-> ToFixed(computed.avgPlasticity)]

\* the validator asks of a type only that it is non-empty
StatTypes == {"output", "constructor"}

StatNodes(k, type) == [i \in 1..k |-> MkNode(i, IF i = 1 THEN "input" ELSE type, 0, 500)]

StatConns ==
    {MkConn(1, 1, 1, w, 100, en) : w \in {900, -800, 0}, en \in BOOLEAN}

StatConnSeqs ==
    UNION {[1..k -> StatConns] : k \in 0..MaxStatConns}

StatsInputs ==
    {d \in {MkPayload(7, StatNodes(k, type), conns) :
                k \in 0..MaxStatNodes, type \in StatTypes, conns \in StatConnSeqs} :
        validateBrainData(d)}

outsideStats == << componentVars, validatorVars, selectionVars, styleVars,
    viewVars,
    edgeVars,
    socketVars,
    storeVars,
    pageVars,
    detailVars >>

\* a render with brainData set: const brainStats = calculateBrainStats()
Calculate ==
    /\ brainStats = NoStats
    /\ brainStats' = calculateBrainStats(statsData)
    /\ UNCHANGED << statsData, outsideStats >>

InitStats ==
    /\ ComponentIdle
    /\ ValidatorIdle
    /\ SelectionIdle
    /\ StyleIdle
    /\ ViewIdle
    /\ EdgesIdle
    /\ SocketIdle
    /\ StoreIdle
    /\ PageIdle
    /\ DetailIdle
    /\ statsData \in StatsInputs
    /\ brainStats = NoStats

NextStats == Calculate

SpecStats == InitStats /\ [][NextStats]_vars

\* ------------------------------------------------------------ edge style
\* weights around every threshold of the colour scale, in thousandths
StyleWeights ==
    {-1000, -701, -700, -699, -301, -300, -299, -1, 0, 1, 299, 300, 301, 699, 700, 701, 1000}

StyleEdges ==
    {EdgeElement(MkConn(1, 1, 2, w, 100, en), sw) :
        w \in StyleWeights, en \in BOOLEAN, sw \in BOOLEAN}

outsideStyle == << componentVars, validatorVars, selectionVars, statsVars,
    viewVars,
    edgeVars,
    socketVars,
    storeVars,
    pageVars,
    detailVars >>

\* applyEdgeStyle(edge): edge.style('line-color', color) and
\* edge.style('target-arrow-color', color) with the one colour computed
ApplyStyle ==
    /\ edgeStyle' = [edgeStyle EXCEPT !.lineColor = applyEdgeStyle(edgeStyle.edge).color,
                                      !.arrowColor = applyEdgeStyle(edgeStyle.edge).color]
    /\ UNCHANGED outsideStyle

\* the body of the forEach of forceStyleUpdate: the same ladder, inline
ForceStyle ==
    /\ edgeStyle' = [edgeStyle EXCEPT
                        !.lineColor = EdgeColor(edgeStyle.edge.weight, edgeStyle.edge.enabled),
                        !.arrowColor = EdgeColor(edgeStyle.edge.weight, edgeStyle.edge.enabled)]
    /\ UNCHANGED outsideStyle

InitStyle ==
    /\ ComponentIdle
    /\ ValidatorIdle
    /\ SelectionIdle
    /\ StatsIdle
    /\ ViewIdle
    /\ EdgesIdle
    /\ SocketIdle
    /\ StoreIdle
    /\ PageIdle
    /\ DetailIdle
    /\ edgeStyle \in {Unstyled(e) : e \in StyleEdges}

NextStyle == ApplyStyle \/ ForceStyle

SpecStyle == InitStyle /\ [][NextStyle]_vars

\* ---------------------------------------------------- resize and layout
\* The paths that resize the instance or run a layout on it, on one live
\* instance with a snapshot: the operations each of them calls, in order.
Sizes == {[width |-> w, height |-> h] : w \in {0, 800}, h \in {0, 600}}

\* container && container.offsetWidth > 0 && container.offsetHeight > 0
HasSize(c) == c.width > 0 /\ c.height > 0

Ran(path, ops) ==
    [path |-> path, width |-> container.width, height |-> container.height, ops |-> ops]

\* what a sequence of engine operations leaves of afterLayout
RECURSIVE Track(_, _)
Track(al, ops) ==
    IF ops = << >> THEN al
    ELSE Track(CASE Head(ops) = "layout" -> [ran |-> TRUE, fit |-> FALSE, style |-> FALSE]
                 [] Head(ops) = "center" -> [al EXCEPT !.fit = al.ran]
                 [] Head(ops) = "style" -> [al EXCEPT !.style = al.ran]
                 [] OTHER -> al,
               Tail(ops))

\* the catch blocks of the stats callback and of forceResize
Recovery == << "fit", "center" >>

\* the 200 ms callback of the effect on [showStats, layout, brainData];
\* fail: cy.resize() throws
StatsCallbackOps(c, fail) ==
    IF ~HasSize(c) THEN << >>
    ELSE IF fail THEN << "resize" >> \o Recovery
    ELSE << "resize", "position", "fit", "center" >>
             \o (IF hasElements THEN << "layout" >> ELSE << >>)

\* the 100 ms callback of handleResize; its catch block only logs
WindowCallbackOps(c, fail) ==
    IF fail THEN << "resize" >> ELSE << "resize", "fit", "center" >>

ForceResizeOps(c, fail) ==
    IF ~HasSize(c) THEN << "fit", "center" >>
    ELSE IF fail THEN << "resize" >> \o Recovery
    ELSE << "resize", "position", "fit", "center" >>

outsideView ==
    << componentVars, validatorVars, selectionVars, statsVars, styleVars,
    edgeVars,
    socketVars,
    storeVars,
    pageVars,
    detailVars >>

Perform(path, ops) ==
    /\ lastRun' = Ran(path, ops)
    /\ afterLayout' = Track(afterLayout, ops)

\* the drawing surface changes its size
SurfaceResized(c) ==
    /\ c \in Sizes \ {container}
    /\ container' = c
    /\ UNCHANGED << viewTimers, lastRun, afterLayout, hasElements, outsideView >>

\* showStats or layout changed: the effect sets its callback
StatsChanged ==
    /\ viewTimers' = viewTimers \cup {"statsResize"}
    /\ UNCHANGED << container, lastRun, afterLayout, hasElements, outsideView >>

\* the window's resize event
WindowResized ==
    /\ viewTimers' = viewTimers \cup {"windowResize"}
    /\ UNCHANGED << container, lastRun, afterLayout, hasElements, outsideView >>

forceResize(fail) ==
    /\ Perform("forceResize", ForceResizeOps(container, fail))
    /\ UNCHANGED << container, viewTimers, hasElements, outsideView >>

\* applyLayout: cy.layout(layoutOptions).run(), then applyEdgeStyles
\* after 1100 ms
LayoutApplied ==
    /\ Perform("applyLayout", << "layout" >>)
    /\ viewTimers' = viewTimers \cup {"layoutStyle"}
    /\ UNCHANGED << container, hasElements, outsideView >>

FireView(t, fail) ==
    /\ t \in viewTimers
    /\ viewTimers' = viewTimers \ {t}
    /\ CASE t = "statsResize" -> Perform(t, StatsCallbackOps(container, fail))
         [] t = "windowResize" -> Perform(t, WindowCallbackOps(container, fail))
         [] t = "layoutStyle" -> ~fail /\ Perform(t, << "style" >>)
    /\ UNCHANGED << container, hasElements, outsideView >>

InitView ==
    /\ ComponentIdle
    /\ ValidatorIdle
    /\ SelectionIdle
    /\ StatsIdle
    /\ StyleIdle
    /\ EdgesIdle
    /\ SocketIdle
    /\ StoreIdle
    /\ PageIdle
    /\ DetailIdle
    /\ container \in Sizes
    /\ viewTimers = {}
    /\ lastRun = NoRun
    /\ afterLayout = NoLayout
    /\ hasElements \in BOOLEAN

NextView ==
    \/ \E c \in Sizes : SurfaceResized(c)
    \/ StatsChanged
    \/ WindowResized
    \/ \E fail \in BOOLEAN : forceResize(fail)
    \/ LayoutApplied
    \/ \E t \in viewTimers, fail \in BOOLEAN : FireView(t, fail)

SpecView == InitView /\ [][NextView]_vars

\* ------------------------------------------------------------- edge lists
MaxEdgeConns == 2     \* connections of a snapshot whose edge lists are built

\* nodes 2 and 12; connections between them and to a node 9 that the
\* snapshot does not have, with ids 1 and 11
EdgeConns ==
    {MkConn(id, from, to, 500, 100, en) :
        id \in {1, 11}, from \in {2, 12}, to \in {2, 9}, en \in BOOLEAN}

EdgeInputs ==
    {d \in {MkPayload(7, << MkNode(2, "input", 0, 500), MkNode(12, "output", 0, 500) >>, conns) :
               conns \in UNION {[1..k -> EdgeConns] : k \in 0..MaxEdgeConns}} :
        validateBrainData(d)}

\* the list both paths build: filter, then map each connection to its
\* element (the connection is kept beside the element it became)
EdgeList(data, showDisabled, sw) ==
    [i \in 1..Len(FilterConnections(data.connections, showDisabled)) |->
        [conn |-> FilterConnections(data.connections, showDisabled)[i],
         data |-> EdgeElement(FilterConnections(data.connections, showDisabled)[i], sw)]]

\* elements.edges.filter(edge => !nodeIds.has(source) || !nodeIds.has(target))
invalidEdges(data, list) ==
    {list[i].data.id : i \in {j \in 1..Len(list) :
        \/ list[j].data.source \notin {NodeElement(data.nodes[k]).id : k \in 1..Len(data.nodes)}
        \/ list[j].data.target \notin {NodeElement(data.nodes[k]).id : k \in 1..Len(data.nodes)}}}

outsideEdges ==
    << componentVars, validatorVars, selectionVars, statsVars, styleVars, viewVars,
    socketVars,
    storeVars,
    pageVars,
    detailVars >>

\* the construction effect: the list is checked, the invalid edges are
\* named in a warning, the whole list goes to cytoscape()
ConstructEdges ==
    /\ handed' = [handed EXCEPT !.construction =
                     [showDisabled |-> edgeShowDisabled,
                      list |-> EdgeList(edgeData, edgeShowDisabled, TRUE)]]
    /\ flagged' = [flagged EXCEPT !.construction =
                       invalidEdges(edgeData, EdgeList(edgeData, edgeShowDisabled, TRUE))]
    /\ ranPaths' = ranPaths \cup {"construction"}
    /\ UNCHANGED << edgeData, edgeShowDisabled, outsideEdges >>

\* the toggle and the resync effect on the instance built: the list goes
\* to cy.add() unchecked
ResyncEdges ==
    /\ "construction" \in ranPaths
    /\ edgeShowDisabled' = ~edgeShowDisabled
    /\ handed' = [handed EXCEPT !.resync =
                     [showDisabled |-> ~edgeShowDisabled,
                      list |-> EdgeList(edgeData, ~edgeShowDisabled, TRUE)]]
    /\ flagged' = [flagged EXCEPT !.resync = {}]
    /\ ranPaths' = ranPaths \cup {"resync"}
    /\ UNCHANGED << edgeData, outsideEdges >>

InitEdges ==
    /\ ComponentIdle
    /\ ValidatorIdle
    /\ SelectionIdle
    /\ StatsIdle
    /\ StyleIdle
    /\ ViewIdle
    /\ SocketIdle
    /\ StoreIdle
    /\ PageIdle
    /\ DetailIdle
    /\ edgeData \in EdgeInputs
    /\ edgeShowDisabled \in BOOLEAN
    /\ handed = [construction |-> NoList, resync |-> NoList]
    /\ flagged = [construction |-> {}, resync |-> {}]
    /\ ranPaths = {}

NextEdges == ConstructEdges \/ ResyncEdges

SpecEdges == InitEdges /\ [][NextEdges]_vars

\* -------------------------------------------------------- WebSocket hook
\* useWebSocket as WebSocketProvider uses it: the provider takes
\* isConnected and sendMessage from the hook and never calls connect or
\* disconnect itself, so connect runs from the mount effect and from the
\* reconnect callback only.
MaxSockets == 5       \* sockets created during one behaviour

\* WebSocketProvider: maxReconnectAttempts: 3
maxReconnectAttempts == 3

\* The mount effect calls the connect of the first render.  The name
\* connect inside that callback is the first render's binding, so the
\* reconnect callback calls the same closure again: the reconnectAttempts
\* and isConnected it reads are those of the first render.
ClosureAttempts == 0

ClosureConnected == FALSE

CloseCodes == {1000, 1006}

outsideSocket ==
    << componentVars, validatorVars, selectionVars, statsVars, styleVars, viewVars,
       edgeVars,
    storeVars,
    pageVars,
    detailVars >>

\* onclose without the test event.code !== 1000
ShouldReconnectAnyCode(code) == ClosureAttempts < maxReconnectAttempts

\* event.code !== 1000 && reconnectAttempts < maxReconnectAttempts
ShouldReconnect(code) == code # 1000 /\ ClosureAttempts < maxReconnectAttempts

\* connect(): returns at once while a connection attempt is under way or
\* when the closure sees an open connection; otherwise creates a socket
Connects == ~isConnectingRef /\ ~(wsRef /\ ClosureConnected)

\* ws.onopen
WsOpen ==
    /\ ws = "connecting"
    /\ ws' = "open"
    /\ isConnected' = TRUE
    /\ reconnectAttempts' = 0
    /\ isConnectingRef' = FALSE
    /\ wsLast' = "open"
    /\ UNCHANGED << wsMounted, wsRef, wsSockets, reconnectTimeoutRef, outsideSocket >>

\* ws.onerror: the close event follows
WsError ==
    /\ ws \in {"connecting", "open"}
    /\ ws' = "failed"
    /\ isConnectingRef' = FALSE
    /\ wsLast' = "error"
    /\ UNCHANGED << wsMounted, wsRef, wsSockets, isConnected, reconnectAttempts,
                    reconnectTimeoutRef, outsideSocket >>

\* ws.onclose with event.code = code
WsClose(code) ==
    /\ ws \in {"connecting", "open", "failed", "closing"}
    /\ ws' = "closed"
    /\ isConnected' = FALSE
    /\ isConnectingRef' = FALSE
    /\ reconnectTimeoutRef' = (reconnectTimeoutRef \/ ShouldReconnect(code))
    /\ wsLast' = IF code = 1000 THEN "close1000" ELSE "close"
    /\ UNCHANGED << wsMounted, wsRef, wsSockets, reconnectAttempts, outsideSocket >>

\* the reconnect callback: setReconnectAttempts(prev => prev + 1); connect()
WsReconnect ==
    /\ reconnectTimeoutRef
    /\ wsSockets < MaxSockets
    /\ reconnectTimeoutRef' = FALSE
    /\ reconnectAttempts' = reconnectAttempts + 1
    /\ ws' = IF Connects THEN "connecting" ELSE ws
    /\ wsRef' = (wsRef \/ Connects)
    /\ wsSockets' = IF Connects THEN wsSockets + 1 ELSE wsSockets
    /\ isConnectingRef' = (isConnectingRef \/ Connects)
    /\ wsLast' = "reconnect"
    /\ UNCHANGED << wsMounted, isConnected, outsideSocket >>

\* the cleanup of the mount effect: the timer is cleared, disconnect()
\* closes the socket with code 1000 and resets the state
WsUnmount ==
    /\ wsMounted
    /\ wsMounted' = FALSE
    /\ reconnectTimeoutRef' = FALSE
    /\ ws' = IF wsRef /\ ws \in {"connecting", "open", "failed"} THEN "closing" ELSE ws
    /\ wsRef' = FALSE
    /\ isConnected' = FALSE
    /\ reconnectAttempts' = 0
    /\ isConnectingRef' = FALSE
    /\ wsLast' = "disconnect"
    /\ UNCHANGED << wsSockets, outsideSocket >>

\* the state after the mount effect has called connect()
InitSocket ==
    /\ ComponentIdle
    /\ ValidatorIdle
    /\ SelectionIdle
    /\ StatsIdle
    /\ StyleIdle
    /\ ViewIdle
    /\ EdgesIdle
    /\ StoreIdle
    /\ PageIdle
    /\ DetailIdle
    /\ wsMounted = TRUE
    /\ ws = "connecting"
    /\ wsRef = TRUE
    /\ wsSockets = 1
    /\ isConnected = FALSE
    /\ reconnectAttempts = 0
    /\ isConnectingRef = TRUE
    /\ reconnectTimeoutRef = FALSE
    /\ wsLast = "none"

NextSocket ==
    \/ WsOpen
    \/ WsError
    \/ \E code \in CloseCodes : WsClose(code)
    \/ WsReconnect
    \/ WsUnmount

SpecSocket == InitSocket /\ [][NextSocket]_vars

\* ------------------------------------------------------------ shared store
\* The four asynchronous operations of the store, each started by a page
\* while the others may be in flight; "" is the error null.
outsideStore ==
    << componentVars, validatorVars, selectionVars, statsVars, styleVars, viewVars,
       edgeVars, socketVars,
    detailVars >>

\* error.message of a rejected request
ErrorOf(op) ==
    CASE op = "fetchPopulation" -> "population error"
      [] op = "fetchStats" -> "stats error"
      [] op = "startEvolution" -> "evolution error"
      [] op = "evaluatePopulation" -> "evaluation error"

\* the message of the Error thrown for a body of the wrong shape
FormatError(ep) ==
    IF ep = "fetchPopulation" THEN "population format" ELSE "stats format"

\* Array.isArray(response.data)
IsArray(data) == data.kind = "array"

\* the condition of fetchStats with only `data &&` left
StatsWellFormedTruthy(data) == data.kind = "object"

\* data && typeof data.size === 'number' && ... && typeof data.generation
\* === 'number'
StatsWellFormed(data) ==
    /\ data.kind = "object"
    /\ \A k \in StatsFields : IsNumber(data.f[k])

WellFormed(ep, data) ==
    IF ep = "fetchPopulation" THEN IsArray(data) ELSE StatsWellFormed(data)

\* bodies the server may answer with
PopulationBodies ==
    {PopulationBody("array", << >>), PopulationBody("array", << 1, 2 >>),
     PopulationBody("object", << >>), PopulationBody("null", << >>)}

StatsBodies ==
    {StatsBody("object", 1), StatsBody("null", 0),
     [StatsBody("object", 1) EXCEPT !.f["generation"] = Undef]}
    \cup {[StatsBody("object", 1) EXCEPT !.f[k] = Str("1")] : k \in StatsFields}

Bodies(ep) == IF ep = "fetchPopulation" THEN PopulationBodies ELSE StatsBodies

\* a body comes with a 2xx answer only; a failed request carries none
Answers(ep) ==
    {[ok |-> TRUE, data |-> d] : d \in Bodies(ep)}
    \cup {[ok |-> FALSE, data |-> IF ep = "fetchPopulation"
                                    THEN PopulationBody("null", << >>)
                                    ELSE StatsBody("null", 0)]}

Applied(ep, a) == a.ok /\ WellFormed(ep, a.data)

\* the fetch an operation awaits after the one it is at, "" if none
NextFetch(op, at) ==
    IF op = "startEvolution" /\ at = "post" THEN "fetchPopulation"
    ELSE IF op = "startEvolution" /\ at = "fetchPopulation" THEN "fetchStats"
    ELSE IF op = "evaluatePopulation" /\ at = "post" THEN "fetchStats"
    ELSE ""

\* the awaited fetch has resolved and the operation has not gone on yet
Resolved(at) == at \in {"fetchPopulation resolved", "fetchStats resolved"}

ResolvedOf(ep) ==
    IF ep = "fetchPopulation" THEN "fetchPopulation resolved" ELSE "fetchStats resolved"

FetchOf(at) == IF at = "fetchPopulation resolved" THEN "fetchPopulation" ELSE "fetchStats"

\* no continuation of an await inside the store is pending: continuations
\* are microtasks and run before any response, timer or click is handled
Settled == \A op \in StoreOperations : ~Resolved(storeOps[op])

Step(step, op, ok, body, started) ==
    [step |-> step, op |-> op, ok |-> ok, body |-> body, started |-> started]

\* what fetchPopulation and fetchStats do first:
\* set({ loading: true, error: null })
FetchStarts ==
    /\ storeLoading' = TRUE
    /\ storeError' = ""

\* what fetchPopulation and fetchStats do with the answer of their GET: the
\* body is stored and loading set false in the try block when the body has
\* the expected shape; otherwise, and when the request failed, the catch
\* block sets error and loading false
Answered(ep, a) ==
    /\ storeLoading' = FALSE
    /\ storeError' = IF Applied(ep, a) THEN storeError
                     ELSE IF a.ok THEN FormatError(ep) ELSE ErrorOf(ep)
    /\ population' = IF ep = "fetchPopulation" /\ Applied(ep, a) THEN a.data
                     ELSE population
    /\ stats' = IF ep = "fetchStats" /\ Applied(ep, a) THEN a.data ELSE stats
    /\ storeLast' = Step("response", ep, a.ok, a.data, << >>)

\* fetchPopulation or fetchStats called by a page: the GET is awaited
StartFetch(op) ==
    /\ op \in Fetches
    /\ Settled
    /\ storeOps[op] = "idle"
    /\ storeOps' = [storeOps EXCEPT ![op] = "get"]
    /\ FetchStarts
    /\ storeLast' = Step("call", op, TRUE, NoBody, << op >>)
    /\ UNCHANGED << population, stats, lastEvent, wsFetches, evolveFailed >>
    /\ UNCHANGED outsideStore

\* the GET of a fetch called by a page is answered
FetchDone(op, a) ==
    /\ op \in Fetches
    /\ Settled
    /\ storeOps[op] = "get"
    /\ storeOps' = [storeOps EXCEPT ![op] = "idle"]
    /\ Answered(op, a)
    /\ UNCHANGED << lastEvent, wsFetches, evolveFailed >>
    /\ UNCHANGED outsideStore

\* startEvolution or evaluatePopulation: set({ loading: true, error: null }),
\* then the POST is awaited
StartPost(op) ==
    /\ op \in {"startEvolution", "evaluatePopulation"}
    /\ Settled
    /\ storeOps[op] = "idle"
    /\ storeOps' = [storeOps EXCEPT ![op] = "post"]
    /\ storeLoading' = TRUE
    /\ storeError' = ""
    /\ storeLast' = Step("call", op, TRUE, NoBody, << >>)
    /\ evolveFailed' = IF op = "startEvolution" THEN {} ELSE evolveFailed
    /\ UNCHANGED << population, stats, lastEvent, wsFetches >>
    /\ UNCHANGED outsideStore

\* the POST is answered: the catch block on a failure, otherwise the call
\* of the first fetch, which sets loading and clears error itself
PostDone(op, ok) ==
    /\ op \in {"startEvolution", "evaluatePopulation"}
    /\ Settled
    /\ storeOps[op] = "post"
    /\ storeOps' = [storeOps EXCEPT ![op] = IF ok THEN NextFetch(op, "post") ELSE "idle"]
    /\ storeLoading' = ok
    /\ storeError' = IF ok THEN "" ELSE ErrorOf(op)
    /\ storeLast' = Step("posted", op, ok, NoBody,
                         IF ok THEN << NextFetch(op, "post") >> ELSE << >>)
    /\ evolveFailed' = IF op = "startEvolution" /\ ~ok THEN evolveFailed \cup {"post"}
                       ELSE evolveFailed
    /\ UNCHANGED << population, stats, lastEvent, wsFetches >>
    /\ UNCHANGED outsideStore

\* the GET of a fetch awaited inside startEvolution or evaluatePopulation
\* is answered: the fetch handles the answer as always and resolves,
\* whatever the answer was
InnerFetchDone(op, a) ==
    /\ op \in {"startEvolution", "evaluatePopulation"}
    /\ Settled
    /\ storeOps[op] \in Fetches
    /\ storeOps' = [storeOps EXCEPT ![op] = ResolvedOf(@)]
    /\ Answered(storeOps[op], a)
    /\ evolveFailed' = IF op = "startEvolution" /\ ~Applied(storeOps[op], a)
                       THEN evolveFailed \cup {storeOps[op]} ELSE evolveFailed
    /\ UNCHANGED << lastEvent, wsFetches >>
    /\ UNCHANGED outsideStore

\* startEvolution or evaluatePopulation goes on after an awaited fetch:
\* with its next fetch, or with its own set({ loading: false })
Continue(op) ==
    /\ op \in {"startEvolution", "evaluatePopulation"}
    /\ Resolved(storeOps[op])
    /\ storeOps' = [storeOps EXCEPT ![op] = IF NextFetch(op, FetchOf(@)) = "" THEN "idle"
                                            ELSE NextFetch(op, FetchOf(@))]
    /\ storeLoading' = (NextFetch(op, FetchOf(storeOps[op])) # "")
    /\ storeError' = IF NextFetch(op, FetchOf(storeOps[op])) # "" THEN "" ELSE storeError
    /\ storeLast' = Step("continue", op, TRUE, NoBody,
                         IF NextFetch(op, FetchOf(storeOps[op])) # ""
                         THEN << NextFetch(op, FetchOf(storeOps[op])) >> ELSE << >>)
    /\ UNCHANGED << population, stats, lastEvent, wsFetches, evolveFailed >>
    /\ UNCHANGED outsideStore

InitStore ==
    /\ ComponentIdle
    /\ ValidatorIdle
    /\ SelectionIdle
    /\ StatsIdle
    /\ StyleIdle
    /\ ViewIdle
    /\ EdgesIdle
    /\ SocketIdle
    /\ StoreCreated
    /\ PageRendered
    /\ DetailIdle

NextStore ==
    \/ \E op \in StoreOperations : StartFetch(op) /\ UNCHANGED pageVars
    \/ \E op \in Fetches : \E a \in Answers(op) : FetchDone(op, a) /\ UNCHANGED pageVars
    \/ \E op \in StoreOperations : StartPost(op) /\ UNCHANGED pageVars
    \/ \E op \in StoreOperations, ok \in BOOLEAN : PostDone(op, ok) /\ UNCHANGED pageVars
    \/ \E op \in StoreOperations : \E a \in Answers(storeOps[op]) :
          InnerFetchDone(op, a) /\ UNCHANGED pageVars
    \/ \E op \in StoreOperations : Continue(op) /\ UNCHANGED pageVars

SpecStore == InitStore /\ [][NextStore]_vars

\* ------------------------------------------------------ WebSocket messages
MaxPending == 2      \* fetches of one kind started by messages and in flight

MessageTypes == {"population_update", "brain_update", "task_update", "evolution_step",
                 "control", "system_status", "unknown"}

\* the switch with fetchPopulation called for evolution_step as well
MessageFetchesBoth(type) ==
    CASE type = "population_update" -> << "fetchPopulation" >>
      [] type = "evolution_step" -> << "fetchPopulation", "fetchStats" >>
      [] OTHER -> << >>

\* switch (message.type): the store operations the handler calls
MessageFetches(type) ==
    CASE type = "population_update" -> << "fetchPopulation" >>
      [] type = "evolution_step" -> << "fetchStats" >>
      [] OTHER -> << >>

Calls(started, ep) == Cardinality({i \in DOMAIN started : started[i] = ep})

\* handleWebSocketMessage: set({ lastEvent: message }), then the switch;
\* a fetch it calls runs to its await (loading true, error null) and is
\* not awaited by the handler
handleWebSocketMessage(type) ==
    /\ Settled
    /\ \A ep \in Fetches : wsFetches[ep] + Calls(MessageFetches(type), ep) <= MaxPending
    /\ lastEvent' = type
    /\ wsFetches' = [ep \in Fetches |-> wsFetches[ep] + Calls(MessageFetches(type), ep)]
    /\ storeLoading' = (storeLoading \/ MessageFetches(type) # << >>)
    /\ storeError' = IF MessageFetches(type) # << >> THEN "" ELSE storeError
    /\ storeLast' = Step("message", type, TRUE, NoBody, MessageFetches(type))
    /\ UNCHANGED << storeOps, population, stats, evolveFailed >>
    /\ UNCHANGED << outsideStore, pageVars >>

\* the GET of a fetch started by a message is answered
WsFetchDone(ep, a) ==
    /\ Settled
    /\ wsFetches[ep] > 0
    /\ wsFetches' = [wsFetches EXCEPT ![ep] = @ - 1]
    /\ Answered(ep, a)
    /\ UNCHANGED << storeOps, lastEvent, evolveFailed >>
    /\ UNCHANGED << outsideStore, pageVars >>

NextMessages ==
    \/ \E type \in MessageTypes : handleWebSocketMessage(type)
    \/ \E ep \in Fetches : \E a \in Answers(ep) : WsFetchDone(ep, a)

SpecMessages == InitStore /\ [][NextMessages]_vars

\* ----------------------------------------------------------- evolution page
\* handleStartEvolution of the evolution page, a sequence of awaited store
\* operations, and the refresh it defers by one second. The button is
\* pressed again only when the run before it, its refresh included, is
\* over.
Awaits == {"startEvolution", "fetchPopulation", "evaluatePopulation", "fetchStats"}

\* the awaited store operation has resolved: the handler goes on next
Resumes(pos) == pos \in Awaits /\ storeOps[pos] = "idle"

\* no continuation of the page is pending
PageSettled == ~Resumes(evolvePos) /\ ~Resumes(refresh)

\* [entry, ...prev.slice(0, 9)]
Prepend(entry, prev) ==
    << entry >> \o SubSeq(prev, 1, IF Len(prev) < 9 THEN Len(prev) ELSE 9)

\* setIsEvolving(true), then startEvolution is called and awaited
handleStartEvolution ==
    /\ evolvePos = "idle"
    /\ refresh = "none"
    /\ isEvolving' = TRUE
    /\ StartPost("startEvolution")
    /\ evolvePos' = "startEvolution"
    /\ UNCHANGED << evolutionHistory, refresh >>

\* the store goes on with the operation the page awaits
StoreStep ==
    /\ PageSettled
    /\ \/ \E op \in Fetches : \E a \in Answers(op) : FetchDone(op, a)
       \/ \E op \in StoreOperations, ok \in BOOLEAN : PostDone(op, ok)
       \/ \E op \in StoreOperations : \E a \in Answers(storeOps[op]) : InnerFetchDone(op, a)
       \/ \E op \in StoreOperations : Continue(op)
    /\ UNCHANGED pageVars

\* startEvolution has resolved (it never rejects: its catch block handles
\* every failure): the entry with status 'success' is prepended and
\* fetchPopulation is called and awaited
AfterStartEvolution ==
    /\ evolvePos = "startEvolution"
    /\ Resumes(evolvePos)
    /\ evolutionHistory' = Prepend("success", evolutionHistory)
    /\ StartFetch("fetchPopulation")
    /\ evolvePos' = "fetchPopulation"
    /\ UNCHANGED << isEvolving, refresh >>

\* then evaluatePopulation
AfterFetchPopulation ==
    /\ evolvePos = "fetchPopulation"
    /\ Resumes(evolvePos)
    /\ StartPost("evaluatePopulation")
    /\ evolvePos' = "evaluatePopulation"
    /\ UNCHANGED << isEvolving, evolutionHistory, refresh >>

\* then fetchStats
AfterEvaluatePopulation ==
    /\ evolvePos = "evaluatePopulation"
    /\ Resumes(evolvePos)
    /\ StartFetch("fetchStats")
    /\ evolvePos' = "fetchStats"
    /\ UNCHANGED << isEvolving, evolutionHistory, refresh >>

\* then the refresh is deferred with setTimeout and the finally block
\* runs setIsEvolving(false)
AfterFetchStats ==
    /\ evolvePos = "fetchStats"
    /\ Resumes(evolvePos)
    /\ refresh' = "timer"
    /\ isEvolving' = FALSE
    /\ evolvePos' = "idle"
    /\ UNCHANGED evolutionHistory
    /\ UNCHANGED storeVars
    /\ UNCHANGED outsideStore

\* the deferred refresh: fetchPopulation, then fetchStats
RefreshFires ==
    /\ refresh = "timer"
    /\ StartFetch("fetchPopulation")
    /\ refresh' = "fetchPopulation"
    /\ UNCHANGED << isEvolving, evolutionHistory, evolvePos >>

RefreshGoesOn ==
    /\ refresh = "fetchPopulation"
    /\ Resumes(refresh)
    /\ StartFetch("fetchStats")
    /\ refresh' = "fetchStats"
    /\ UNCHANGED << isEvolving, evolutionHistory, evolvePos >>

RefreshEnds ==
    /\ refresh = "fetchStats"
    /\ Resumes(refresh)
    /\ refresh' = "none"
    /\ UNCHANGED << isEvolving, evolutionHistory, evolvePos >>
    /\ UNCHANGED storeVars
    /\ UNCHANGED outsideStore

NextEvolve ==
    \/ handleStartEvolution
    \/ StoreStep
    \/ AfterStartEvolution
    \/ AfterFetchPopulation
    \/ AfterEvaluatePopulation
    \/ AfterFetchStats
    \/ RefreshFires
    \/ RefreshGoesOn
    \/ RefreshEnds

SpecEvolve == InitStore /\ [][NextEvolve]_vars

\* --------------------------------------------------------- brain detail page
MaxDetailRequests == 3   \* requests the page issues during one behaviour

outsideDetail ==
    << componentVars, validatorVars, selectionVars, statsVars, styleVars, viewVars,
       edgeVars, socketVars, storeVars, pageVars >>

DetailOutcomes == {"ok", "http", "network"}

\* err.message of the failure
DetailErrorOf(outcome) == IF outcome = "http" THEN "not found" ELSE "Failed to fetch"

\* the effect with [id]: fetchBrainDetail returns at once without id,
\* otherwise setLoading(true) and the request is sent
FetchBrainDetail(id) ==
    /\ detailLoading' = (detailLoading \/ id # 0)
    /\ detailPending' = IF id = 0 THEN detailPending
                        ELSE [detailPending EXCEPT ![id] = @ + 1]
    /\ detailIssued' = IF id = 0 THEN detailIssued ELSE detailIssued + 1

\* the route leads to another brain: the effect runs again; it has no
\* cleanup, so the request before it stays as it is
Navigate(id) ==
    /\ detailMounted
    /\ id # routeId
    /\ detailIssued < MaxDetailRequests
    /\ routeId' = id
    /\ FetchBrainDetail(id)
    /\ UNCHANGED << detailMounted, brainDetail, detailError, detailLast, outsideDetail >>

\* the request for id is answered: setBrainDetail(data) in the try block
\* or setError in the catch block, then setLoading(false); a setter
\* called after the page has unmounted changes nothing
DetailAnswered(id, outcome) ==
    /\ detailPending[id] > 0
    /\ detailPending' = [detailPending EXCEPT ![id] = @ - 1]
    /\ brainDetail' = IF detailMounted /\ outcome = "ok" THEN id ELSE brainDetail
    /\ detailError' = IF detailMounted /\ outcome # "ok" THEN DetailErrorOf(outcome)
                      ELSE detailError
    /\ detailLoading' = (detailLoading /\ ~detailMounted)
    /\ detailLast' = [id |-> id, stored |-> detailMounted /\ outcome = "ok",
                      current |-> id = routeId, mounted |-> detailMounted]
    /\ UNCHANGED << routeId, detailMounted, detailIssued, outsideDetail >>

\* the page unmounts: nothing is cancelled
DetailUnmount ==
    /\ detailMounted
    /\ detailMounted' = FALSE
    /\ UNCHANGED << routeId, brainDetail, detailLoading, detailError, detailPending,
                    detailIssued, detailLast, outsideDetail >>

\* the page mounted on the route of a brain, its effect has run
InitDetail ==
    /\ ComponentIdle
    /\ ValidatorIdle
    /\ SelectionIdle
    /\ StatsIdle
    /\ StyleIdle
    /\ ViewIdle
    /\ EdgesIdle
    /\ SocketIdle
    /\ StoreIdle
    /\ PageIdle
    /\ routeId \in RouteIds
    /\ detailMounted = TRUE
    /\ brainDetail = 0
    /\ detailLoading = TRUE
    /\ detailError = ""
    /\ detailPending = [id \in RouteIds \ {0} |-> IF id = routeId THEN 1 ELSE 0]
    /\ detailIssued = IF routeId = 0 THEN 0 ELSE 1
    /\ detailLast = NoAnswer

NextDetail ==
    \/ \E id \in RouteIds : Navigate(id)
    \/ \E id \in RouteIds \ {0}, outcome \in DetailOutcomes : DetailAnswered(id, outcome)
    \/ DetailUnmount

SpecDetail == InitDetail /\ [][NextDetail]_vars

\* -------------------------------------------------------------- claims
\* The validation rule as the specification states it.
RuleHolds(data) ==
    /\ data.kind = "object"
    /\ data.nodesArr
    /\ data.connsShape = "array"
    /\ IsNumber(data.gp) /\ IsNumber(data.fitness) /\ IsNumber(data.age)
    /\ \A i \in 1..Len(data.nodes) :
          /\ IsNumber(data.nodes[i].bias)
          /\ IsNumber(data.nodes[i].threshold)
          /\ data.nodes[i].type.t = "str" /\ data.nodes[i].type.s # ""
          /\ data.nodes[i].activation.t = "str" /\ data.nodes[i].activation.s # ""
    /\ \A i \in 1..Len(data.connections) :
          /\ IsNumber(data.connections[i].weight)
          /\ IsNumber(data.connections[i].plasticity)
          /\ IsBoolean(data.connections[i].enabled)

\* C10: validateBrainData accepts a payload exactly when the stated rule
\* holds of it, node ids, connection ids and endpoints equal to 0 included.
C10_ValidatorMatchesRule ==
    vResult # "none" => ((vResult = "accept") <=> RuleHolds(vPayload))

LiveEngines == {i \in DOMAIN engines : ~engines[i].destroyed}

\* the live instance that cyInstanceRef refers to exists
HasLiveEngine == cyInstanceRef # 0 /\ ~engines[cyInstanceRef].destroyed

\* the elements an engine built from snapshot data under the current view
\* state holds once the edge colours have been applied
ExpectedNodes(data) == AddNodes({}, data.nodes)

ExpectedEdges(data) ==
    {applyEdgeStyle(e) :
        e \in AddEdges({}, {n.id : n \in ExpectedNodes(data)},
                       FilterConnections(data.connections, showDisabledConnections),
                       showWeights)}

\* C1: a response that belongs to a superseded request, or to an unmounted
\* component, changes none of brainData, error, loading and
\* showDisabledConnections; the snapshot stored by a response is one for
\* the current brainId.
C1_StaleResponseDiscarded ==
    [][ /\ \A r \in requests \ requests' :
              ~r.alive => UNCHANGED << brainData, error, loading, showDisabledConnections >>
        /\ (brainData' # brainData /\ mounted') =>
              /\ Catalogue[brainData'].id = brainId
              /\ \E r \in requests \ requests' : r.alive /\ r.id = brainId ]_vars

\* the response to the first request, for id 7, arrives with a payload the
\* validator accepts after id 8 was requested, and is dropped
C1_Witness ==
    /\ lastResponse = "staleValid"
    /\ mounted
    /\ issued = 2
    /\ brainId = 8
    /\ brainData = 0
    /\ error = NoError

\* C2: no operation is ever invoked on an engine instance after it has been
\* destroyed, by a deferred callback or by a handler reading cyInstanceRef.
C2_NoCallAfterDestroy == ~staleCall

\* C3: toggling showDisabledConnections with brainData, layout, showWeights
\* and nodeSize unchanged neither destroys the engine instance nor creates
\* one: the instance is the same before and after.
C3_ToggleKeepsEngine ==
    [][ ( /\ mounted'
          /\ showDisabledConnections' # showDisabledConnections
          /\ brainData' = brainData
          /\ layout' = layout
          /\ showWeights' = showWeights
          /\ nodeSize' = nodeSize )
        => /\ cyInstanceRef' = cyInstanceRef
           /\ Len(engines') = Len(engines)
           /\ \A i \in DOMAIN engines : engines'[i].destroyed = engines[i].destroyed ]_vars

\* the first snapshot loaded has one enabled connection and the only engine
\* ever built shows both connections: the toggle has resynced the edges
C3_Witness ==
    /\ mounted
    /\ issued = 1
    /\ brainData = 1
    /\ showDisabledConnections
    /\ Len(engines) = 1
    /\ cyInstanceRef = 1
    /\ ~engines[1].destroyed
    /\ Cardinality(engines[1].edges) = 2

\* C4: with all effects run, the live engine holds exactly nodes.length
\* node elements and one edge element per enabled connection, plus the
\* disabled connections if and only if showDisabledConnections is true.
C4_RenderedCounts ==
    (mounted /\ brainData # 0 /\ HasLiveEngine) =>
        /\ Cardinality(engines[cyInstanceRef].nodes) = Len(Catalogue[brainData].nodes)
        /\ Cardinality(engines[cyInstanceRef].edges) =
              Len(FilterConnections(Catalogue[brainData].connections,
                                    showDisabledConnections))

\* C5: accepting a snapshot whose connections are all disabled sets
\* showDisabledConnections and the engine then displayed renders every
\* connection, without a user action, however the updates are committed.
C5_AllDisabledShown ==
    [][ ( /\ brainData' # brainData
          /\ brainData' # 0
          /\ AllDisabled(Catalogue[brainData'])
          /\ error' = NoError )
        => /\ showDisabledConnections'
           /\ cyInstanceRef' # 0
           /\ ~engines'[cyInstanceRef'].destroyed
           /\ engines'[cyInstanceRef'].attached
           /\ Cardinality(engines'[cyInstanceRef'].edges) =
                 Len(Catalogue[brainData'].connections) ]_vars

\* C6: when a step of the engine construction throws, the error string is
\* set and no live instance created by that attempt remains, nor does
\* cyInstanceRef refer to one.
C6_FailedConstructionLeavesNoEngine ==
    [][ (throws' = throws + 1 /\ error = NoError /\ error' = InitError)
        => /\ \A i \in DOMAIN engines' : i > Len(engines) => engines'[i].destroyed
           /\ cyInstanceRef' <= Len(engines) ]_vars

\* C7: at most one engine instance created by the component is live at any
\* moment, and none is after unmount.
C7_AtMostOneLiveEngine ==
    /\ Cardinality(LiveEngines) <= 1
    /\ ~mounted => LiveEngines = {}

\* C8: once every pending callback has fired, the live engine's edge set,
\* edge labels and edge colours are those determined by the current
\* snapshot and the current view state.
C8_SettledEngineIsCurrent ==
    (mounted /\ timers = {} /\ brainData # 0 /\ HasLiveEngine) =>
        /\ engines[cyInstanceRef].edges = ExpectedEdges(Catalogue[brainData])
        /\ engines[cyInstanceRef].showWeights = showWeights

C11_NoAutomaticRetry ==
    [][ /\ lastResponse' \in {"transport", "invalid", "uninspectable"}
           => /\ error' # NoError
              /\ ~loading'
              /\ issued' = issued
              /\ requests' \subseteq requests
        /\ (issued' # issued \/ \E r \in requests' \ requests : r.alive)
              => brainId' # brainId ]_vars

\* the only load failed with a status that is not 2xx and nothing is in
\* flight afterwards
C11_Witness ==
    /\ lastResponse = "transport"
    /\ mounted
    /\ error = HttpError
    /\ ~loading
    /\ issued = 1
    /\ requests = {}

\* C12: changing the layout, the weight labels or the node size of a
\* displayed graph neither destroys the engine instance nor creates one.
C12_ViewChangeKeepsEngine ==
    [][ ( /\ mounted'
          /\ HasLiveEngine
          /\ brainData' = brainData
          /\ layout' # layout \/ showWeights' # showWeights \/ nodeSize' # nodeSize )
        => /\ cyInstanceRef' = cyInstanceRef
           /\ Len(engines') = Len(engines)
           /\ ~engines'[cyInstanceRef].destroyed ]_vars

\* the ids of the edge elements an instance holds
EdgeIds(engine) == {e.id : e \in engine.edges}

\* one click on the show-disabled-connections button and its commit
ToggleDisabled(st) ==
    Commit([st EXCEPT !.showDisabledConnections = ~@], {"showDisabledConnections"}, NoFailure)

\* C13: on a displayed graph the resync path run twice in a row leaves the
\* edge ids it left the first time, and two clicks in succession on the
\* show-disabled-connections button leave the edge ids the engine held
\* before the first click.
C13_ResyncRoundTrip ==
    (Displayed /\ HasLiveEngine) =>
        /\ EdgeIds(ResyncEffect(ResyncEffect(Snapshot, NoFailure), NoFailure)
                       .engines[cyInstanceRef])
              = EdgeIds(ResyncEffect(Snapshot, NoFailure).engines[cyInstanceRef])
        /\ EdgeIds(ToggleDisabled(ToggleDisabled(Snapshot)).engines[cyInstanceRef])
              = EdgeIds(engines[cyInstanceRef])

\* C14: the resync path leaves the node elements of the instance as they
\* are, data included, whether it succeeds or throws: no step changes the
\* node elements of an instance that stays live.
C14_ResyncKeepsNodes ==
    [][ \A i \in DOMAIN engines :
            (~engines[i].destroyed /\ ~engines'[i].destroyed)
                => engines'[i].nodes = engines[i].nodes ]_vars

\* the resync path threw after removing the edges of the instance built
\* from snapshot 7: its three nodes are still there
C14_Witness ==
    /\ mounted
    /\ throws = 1
    /\ error = NoError
    /\ brainData = 1
    /\ HasLiveEngine
    /\ engines[cyInstanceRef].edges = {}
    /\ engines[cyInstanceRef].nodes = ExpectedNodes(Example7)

\* C15: whenever the graph view is displayed (mounted, loading = false,
\* error = null) and brainData is non-null, a live engine instance exists,
\* whether the updates of a load were committed in one render or in two.
C15_DisplayedHasEngine ==
    (Displayed /\ brainData # 0) => HasLiveEngine

\* C16: every change of the brainId prop of the mounted component starts
\* exactly one GET request for the new id, also when the id was shown
\* before, and no request starts without a change of the id.
C16_OneFetchPerIdChange ==
    [][ /\ (mounted /\ brainId' # brainId)
             => /\ issued' = issued + 1
                /\ [id |-> brainId', alive |-> TRUE] \in requests'
        /\ issued' # issued => brainId' # brainId ]_vars

\* C17: one element at most is selected: after a tap on a node the
\* selection is that node, after a tap on an edge it is that edge whatever
\* was selected before, after a tap on the empty canvas it is none; the
\* canvas handler does not clear the selection a tap on an element made.
C17_SingleSelection ==
    /\ evt.target = "nodes" => selectedElement = [type |-> "node", data |-> evt.data]
    /\ evt.target = "edges" => selectedElement = [type |-> "edge", data |-> evt.data]
    /\ evt.target \in {"core", "none"} => selectedElement = NoSelection

\* an edge of the instance was tapped and is the selection
C17_Witness ==
    /\ evt.target = "edges"
    /\ selectedElement.type = "edge"
    /\ \E e \in elements.edges : EdgeData(e) = selectedElement.data

\* C18: for a validated snapshot networkDensity is 0 when the snapshot has
\* fewer than 2 nodes or no enabled connection, and enabledEdges / (N*(N-1))
\* otherwise; it is never NaN and never infinite.
C18_DensityDefined ==
    ~brainStats.isNull =>
        LET n == Len(statsData.nodes)
            enabledEdges == Len(SelectSeq(statsData.connections, LAMBDA c : Truthy(c.enabled)))
            density == brainStats.networkDensity
        IN /\ density.kind = "fin"
           /\ IF n < 2 \/ enabledEdges = 0
              THEN density.num = 0
              ELSE density.num * (n * (n - 1)) = enabledEdges * density.den

\* C19: for a validated snapshot with no enabled connection the mean
\* weight, the weight deviation and the mean plasticity are not NaN and the
\* statistics panel shows no NaN for them.
C19_MeansDefined ==
    ( /\ ~brainStats.isNull
      /\ \A i \in 1..Len(statsData.connections) : ~Truthy(statsData.connections[i].enabled) )
    => /\ brainStats.avgWeight.kind # "nan"
       /\ brainStats.weightStd.kind # "nan"
       /\ brainStats.avgPlasticity.kind # "nan"
       /\ StatsPanel(brainStats).avgWeight # "NaN"
       /\ StatsPanel(brainStats).weightStd # "NaN"
       /\ StatsPanel(brainStats).avgPlasticity # "NaN"

\* the seven-bucket scale as the styling contract states it
Bucket(w) ==
    CASE w > 700 -> "#059669"
      [] 300 < w /\ w <= 700 -> "#10b981"
      [] 0 < w /\ w <= 300 -> "#34d399"
      [] w = 0 -> "#6b7280"
      [] -300 <= w /\ w < 0 -> "#f87171"
      [] -700 <= w /\ w < -300 -> "#ef4444"
      [] w < -700 -> "#dc2626"

Styled == edgeStyle.lineColor # ""

C21_ZeroSizeResizeSkipped ==
    ( /\ lastRun.path \in {"statsResize", "windowResize", "forceResize"}
      /\ lastRun.width = 0 \/ lastRun.height = 0 )
    => lastRun.ops = << >>

\* C22: every layout run on the live instance is followed, before the
\* next layout run, by a re-fit and re-center of the viewport and by a
\* re-application of the edge styling: once no callback is pending, both
\* have happened since the last layout run.
C22_LayoutFollowedByFitAndStyle ==
    (afterLayout.ran /\ viewTimers = {}) => (afterLayout.fit /\ afterLayout.style)

\* the ids of the connections brainData.connections.filter(conn =>
\* conn.enabled || showDisabledConnections) keeps
FilteredIds ==
    LET conns == FilterConnections(Catalogue[brainData].connections, showDisabledConnections)
    IN {EdgeId(conns[i]) : i \in 1..Len(conns)}

\* C23: a catch path around an engine operation restores a known-good
\* visual state or sets the user-visible error: once an engine call has
\* thrown and no callback is pending, the component is not left with
\* error = null and a rendered edge set other than the filtered
\* connection set.
C23_CatchRecoversOrReports ==
    ( /\ mounted
      /\ throws > 0
      /\ timers = {}
      /\ brainData # 0
      /\ HasLiveEngine
      /\ error = NoError )
    => EdgeIds(engines[cyInstanceRef]) = FilteredIds

\* the edges of a list whose source or target is no node of the snapshot
Dangling(data, list) ==
    {i \in 1..Len(list) :
        \/ \A k \in 1..Len(data.nodes) : data.nodes[k].id.n # list[i].conn.from.n
        \/ \A k \in 1..Len(data.nodes) : data.nodes[k].id.n # list[i].conn.to.n}

\* C24: each time an edge list is handed to the engine, at construction
\* and on the resync path, every edge whose source or target is not a node
\* of the snapshot is named in a warning, and the list still holds it.
C24_DanglingEdgesFlagged ==
    \A path \in ranPaths :
        /\ \A i \in Dangling(edgeData, handed[path].list) :
               handed[path].list[i].data.id \in flagged[path]
        /\ Len(handed[path].list) =
               Len(FilterConnections(edgeData.connections, handed[path].showDisabled))

SameTriple(c, d) == c.id.n = d.id.n /\ c.from.n = d.from.n /\ c.to.n = d.to.n

\* C27: the element ids built at construction and on resync are equal if
\* and only if the two connections agree on id, from and to; the two
\* paths build the same id for the same connection.
C27_EdgeIdPerTriple ==
    \A p \in ranPaths, q \in ranPaths :
        \A i \in 1..Len(handed[p].list), j \in 1..Len(handed[q].list) :
            (handed[p].list[i].data.id = handed[q].list[j].data.id)
                <=> SameTriple(handed[p].list[i].conn, handed[q].list[j].conn)

\* both paths have handed the connections (1, 12, 2) and (11, 2, 2), whose
\* numbers read 1122 when put side by side
C27_Witness ==
    /\ ranPaths = {"construction", "resync"}
    /\ \E i \in 1..Len(handed.construction.list), j \in 1..Len(handed.resync.list) :
          /\ handed.construction.list[i].conn.id.n = 1
          /\ handed.construction.list[i].conn.from.n = 12
          /\ handed.construction.list[i].conn.to.n = 2
          /\ handed.resync.list[j].conn.id.n = 11
          /\ handed.resync.list[j].conn.from.n = 2
          /\ handed.resync.list[j].conn.to.n = 2

\* C25: a lost connection is retried a bounded number of times: the
\* reconnects made since the last open (or disconnect) never exceed
\* maxReconnectAttempts, and once they have reached it no reconnect is
\* scheduled any more.
C25_BoundedReconnects ==
    /\ reconnectAttempts <= maxReconnectAttempts
    /\ reconnectAttempts >= maxReconnectAttempts => ~reconnectTimeoutRef

\* C26: a close event with code 1000 schedules no reconnect: after it no
\* reconnect callback is pending, and no socket is created from there.
C26_NormalCloseNoReconnect ==
    [][ /\ wsLast' = "close1000" => ~reconnectTimeoutRef'
        /\ wsLast = "close1000" => wsSockets' = wsSockets ]_vars

\* the second socket was closed with code 1000 while the provider is
\* mounted, and nothing is pending
C26_Witness ==
    /\ wsMounted
    /\ wsLast = "close1000"
    /\ wsSockets = 2
    /\ ws = "closed"
    /\ ~reconnectTimeoutRef

\* C28: the loading flag does not stay true forever: on a mounted
\* component, once every issued request has been answered, loading is
\* false.
C28_LoadingEnds ==
    (mounted /\ requests = {}) => ~loading

\* C29: an error of an earlier load does not outlive a later successful
\* load: a step in which the response for the current brainId is accepted
\* as the snapshot leaves error null and the graph view displayed.
C29_SuccessClearsError ==
    [][ ( /\ mounted'
          /\ error \in {HttpError, NetworkError, TypeErrorMsg, ValidationError}
          /\ throws' = throws
          /\ \E r \in requests \ requests' : r.alive
          /\ lastResponse' = NoResponse
          /\ brainData' # 0
          /\ Catalogue[brainData'].id = brainId' )
        => (error' = NoError /\ ~loading') ]_vars

\* C30: in the shared store loading is true whenever one of
\* fetchPopulation, fetchStats, startEvolution and evaluatePopulation is in
\* flight, whatever the interleaving.
C30_LoadingWhileInFlight ==
    (\E op \in StoreOperations : storeOps[op] # "idle") => storeLoading

\* C31: when startEvolution resolves after its POST succeeded and the
\* fetchPopulation it awaited failed, the error of the store is set,
\* whatever the answer to the fetchStats that followed.
C31_InnerFailureVisible ==
    (/\ storeLast.step = "continue"
     /\ storeLast.op = "startEvolution"
     /\ storeOps["startEvolution"] = "idle"
     /\ "fetchPopulation" \in evolveFailed)
        => storeError # ""

\* C32: on the evolution page a failed evolve request puts an entry with
\* status 'error' at the head of the history and none with status
\* 'success'; isEvolving is false when handleStartEvolution has finished
\* and the history holds at most 10 entries.
C32_FailedEvolveRecorded ==
    /\ (evolvePos \in Awaits \ {"startEvolution"} /\ "post" \in evolveFailed)
          => Head(evolutionHistory) = "error"
    /\ evolvePos = "idle" => ~isEvolving
    /\ Len(evolutionHistory) <= 10

\* C33: the selected element is none or an element of the live instance:
\* its data is that of a node or of an edge rendered for the current
\* snapshot and the current visibility of disabled connections.
C33_SelectionIsRendered ==
    \/ selectedElement = NoSelection
    \/ selectedElement.type = "node" /\ selectedElement.data \in elements.nodes
    \/ selectedElement.type = "edge"
          /\ selectedElement.data \in {EdgeData(e) : e \in elements.edges}

\* C34: once the owner of the WebSocket hook has unmounted, no reconnect
\* callback is pending and no socket is created any more, whatever state
\* the socket was in and whatever code its close event carries.
C34_NothingAfterUnmount ==
    [][ ~wsMounted' => (/\ ~reconnectTimeoutRef'
                       /\ (~wsMounted => wsSockets' = wsSockets)) ]_vars

\* C35: on the brain detail page, once every request has been answered
\* the brainDetail shown is that of the current route id, and the answer
\* to a request for another id than the current one is never stored
\* (an answer handled after the page has unmounted stores nothing).
C35_DetailIsCurrent ==
    /\ (detailMounted /\ brainDetail # 0 /\ \A id \in RouteIds \ {0} : detailPending[id] = 0)
          => brainDetail = routeId
    /\ detailLast.stored => (detailLast.current /\ detailLast.mounted)

\* C36: with all effects run, the label rendered for every edge of the
\* live engine, whether added at construction or by the resync, is the
\* one the current showWeights determines: empty when weight labels are
\* off, otherwise "DISABLED" for a disabled edge and the weight and the
\* plasticity with 2 decimals for an enabled one.
C36_LabelsFollowShowWeights ==
    (mounted /\ timers = {} /\ brainData # 0 /\ HasLiveEngine) =>
        \A e \in engines[cyInstanceRef].edges :
            RenderedLabel(engines[cyInstanceRef], e) =
                IF ~showWeights THEN [text |-> "", weight |-> 0, plasticity |-> 0]
                ELSE IF ~e.enabled
                     THEN [text |-> "DISABLED", weight |-> 0, plasticity |-> 0]
                     ELSE [text |-> "weight/plasticity",
                           weight |-> IF e.weight >= 0 THEN (e.weight + 5) \div 10
                                      ELSE -((5 - e.weight) \div 10),
                           plasticity |-> IF e.plasticity >= 0 THEN (e.plasticity + 5) \div 10
                                          ELSE -((5 - e.plasticity) \div 10)]

\* weight labels are off and the resync has added the disabled edge of
\* snapshot 7 to an engine that shows its enabled edge as well
C36_Witness ==
    /\ mounted /\ timers = {} /\ brainData # 0 /\ HasLiveEngine
    /\ ~showWeights
    /\ showDisabledConnections
    /\ ~isFirstRender
    /\ \E e \in engines[cyInstanceRef].edges : ~e.enabled
    /\ \E e \in engines[cyInstanceRef].edges : e.enabled

\* C37: a population_update message starts one fetchPopulation and no
\* fetchStats, an evolution_step message one fetchStats and no
\* fetchPopulation, a message of any other type no request; the message
\* handled becomes lastEvent.
C37_MessageStartsItsFetch ==
    [][ storeLast'.step = "message" =>
          /\ lastEvent' = storeLast'.op
          /\ wsFetches'["fetchPopulation"] - wsFetches["fetchPopulation"] =
                IF storeLast'.op = "population_update" THEN 1 ELSE 0
          /\ wsFetches'["fetchStats"] - wsFetches["fetchStats"] =
                IF storeLast'.op = "evolution_step" THEN 1 ELSE 0
          /\ storeOps' = storeOps ]_vars

\* an evolution_step message has been handled while a fetchPopulation
\* started by an earlier message is still in flight
C37_Witness ==
    /\ storeLast.step = "message"
    /\ lastEvent = "evolution_step"
    /\ wsFetches["fetchStats"] = 1
    /\ wsFetches["fetchPopulation"] = 1

\* C38: a 2xx answer whose body is not well-formed is not applied: when
\* GET /api/population answers with something that is no array, or GET
\* /api/stats with an object in which one of the six fields is not a
\* number, population and stats keep their values, error becomes non-null
\* and loading false.
C38_MalformedBodyRejected ==
    [][ ( /\ storeLast'.step = "response"
          /\ storeLast'.ok
          /\ \/ storeLast'.op = "fetchPopulation" /\ storeLast'.body.kind # "array"
             \/ /\ storeLast'.op = "fetchStats"
                /\ storeLast'.body.kind = "object"
                /\ \E k \in StatsFields : storeLast'.body.f[k].t # "num" )
        => /\ population' = population
           /\ stats' = stats
           /\ storeError' # ""
           /\ ~storeLoading' ]_vars

\* the answer to GET /api/stats handled last lacks a number in one field
\* and stats is what an earlier, well-formed answer made it
C38_Witness ==
    /\ storeLast.step = "response"
    /\ storeLast.ok
    /\ storeLast.op = "fetchStats"
    /\ storeLast.body.kind = "object"
    /\ \E k \in StatsFields : storeLast.body.f[k].t # "num"
    /\ stats = StatsBody("object", 1)
    /\ storeError = FormatError("fetchStats")

RECURSIVE CountSum(_, _)
\* the sum of the counts of the types in keys
CountSum(counts, keys) ==
    IF keys = {} THEN 0
    ELSE LET t == CHOOSE x \in keys : TRUE
         IN counts[t].n + CountSum(counts, keys \ {t})

\* C39: for a validated snapshot totalConnections is the number of enabled
\* connections; positive, negative and zero-weight enabled connections
\* add up to it; strongConnections does not exceed it; totalNodes is
\* nodes.length and the counts per node type are numbers that add up
\* to it.
C39_StatsPartition ==
    ~brainStats.isNull =>
        /\ brainStats.totalConnections =
              Len(SelectSeq(statsData.connections, LAMBDA c : Truthy(c.enabled)))
        /\ brainStats.positiveConnections + brainStats.negativeConnections
              + Len(SelectSeq(statsData.connections,
                              LAMBDA c : Truthy(c.enabled) /\ c.weight.n = 0))
              = brainStats.totalConnections
        /\ brainStats.strongConnections <= brainStats.totalConnections
        /\ brainStats.totalNodes = Len(statsData.nodes)
        /\ \A t \in DOMAIN brainStats.nodeTypes : IsNumber(brainStats.nodeTypes[t])
        /\ CountSum(brainStats.nodeTypes, DOMAIN brainStats.nodeTypes) = brainStats.totalNodes

====
